---- MODULE Spec2Model ----
(***************************************************************************)
(* Model of the invoicing repository: PhoenixParser.parse (one document),   *)
(* the pydantic models VATBreakdown / LineItem / ParsedInvoice with their   *)
(* field validators, and ValidationResult.                                  *)
(*                                                                          *)
(* Money is counted in cents (Decimal with two places), VAT rates in        *)
(* thousandths (0.21 = 210), dates in day numbers.                          *)
(***************************************************************************)
EXTENDS Integers, Sequences, FiniteSets, TLC

VARIABLES
    doc,        \* the document handed to parse: its file state and its text
    pc,         \* position of parse
    handle,     \* the fitz document handle: "none", "open", "closed"
    full_text,  \* local of parse: the text read from the document
    locals,     \* locals of parse: the fields extracted so far
    pending,    \* what the try block produced, not yet visible to the caller
    outcome,    \* what the caller of parse got
    obj,        \* a model object: VATBreakdown, LineItem or ParsedInvoice
    call,       \* the last constructor call or attribute assignment on obj
    raised,     \* the validation errors (field names) the last call raised
    vr,         \* a ValidationResult
    ctor,       \* the arguments vr was constructed with
    config,     \* self.config of the parser: the VendorConfiguration
    others,     \* the frames of the other parse calls running on the parser
    files,      \* the configuration directory: the file of each vendor code
    cache,      \* the lru_cache of load_vendor_config, least recent first
    reads,      \* per vendor code, the loads of its file since the cache was cleared
    callers,    \* the threads calling load_vendor_config: position and result
    recap,      \* a text holding VAT figures, as a sequence of tokens
    recap_rows, \* what _extract_vat_breakdown makes of recap
    date_text,  \* a text holding the date labels and date literals, by lines
    dates,      \* what _extract_issue_date and _extract_supply_date make of it
    ex_call,    \* a call of a RegexExtractor / KeywordExtractor function
    ex_ret      \* what that call returned, once it has

vars == <<doc, pc, handle, full_text, locals, pending, outcome,
          obj, call, raised, vr, ctor, config, others, files, cache, reads,
          callers, recap, recap_rows,
          date_text, dates, ex_call, ex_ret>>

parseVars == <<doc, pc, handle, full_text, locals, pending, outcome>>
objVars == <<obj, call, raised>>
vrVars == <<vr, ctor>>
parserVars == <<config, others>>
loaderVars == <<files, cache, reads, callers>>
textVars == <<recap, recap_rows, date_text, dates, ex_call, ex_ret>>

----------------------------------------------------------------------------
(* Python values *)

\* An optional value (str | None, Decimal | None): None or a one-element tuple.
None == <<>>
Some(x) == <<x>>
Get(o) == o[1]

\* The result of a call that may raise.
Ok(v) == [ok |-> TRUE, value |-> v]
Raise(msg) == [ok |-> FALSE, error |-> msg]

Min(a, b) == IF a <= b THEN a ELSE b
Abs(x) == IF x >= 0 THEN x ELSE 0 - x

RECURSIVE SumSeq(_)
SumSeq(s) == IF s = <<>> THEN 0 ELSE Head(s) + SumSeq(Tail(s))

----------------------------------------------------------------------------
(* Bounds of the model *)

\* The issue date the bounded inputs are placed around (a day number).
Issue0 == 100
\* The number of digits of an ordinary invoice number / variable symbol.
DigitsLen == 10
\* The longest list of messages a ValidationResult is driven to.
MaxMessages == 2
\* The longest text of VAT figures, in tokens.
MaxTokens == 5
\* The longest text of date labels and literals, in lines.
MaxLines == 6
\* The most cache hits between two clear_cache calls, the most loads of one
\* vendor's file begun between them, and the threads that share a loader.
MaxHits == 2
MaxReads == 2
NThreads == 2
\* The calls of parse that run in parallel on one parser.
NParses == 2
\* The most capture groups of a pattern and the most matches it finds in a
\* text.
MaxGroups == 2
MaxMatches == 2
\* The longest str cleaned, in characters.
MaxChars == 4
\* The longest text searched for a keyword, in tokens.
MaxKeywordLen == 4
\* The longest list of text blocks.
MaxBlocks == 6

----------------------------------------------------------------------------
(* src/models/parsed_invoice.py *)

\* Decimal("0.01"), the tolerance of both arithmetic checks, in cents.
Tolerance == 1
\* validate_supply_date: days_diff < -90 or days_diff > 30
MaxDaysBefore == 90
MaxDaysAfter == 30
\* Field(max_length=50) of invoice_number, Field(max_length=20) of variable_symbol
MaxInvoiceNumberLen == 50
MaxSymbolLen == 20

allowed_rates == {210, 120, 0}

\* Decimal.quantize(Decimal("0.01")) of n/1000 cents: the context's default
\* rounding is ROUND_HALF_EVEN.
quantize(n) ==
    LET q == n \div 1000
        r == n % 1000
    IN  IF 2 * r > 1000 THEN q + 1
        ELSE IF 2 * r < 1000 THEN q
        ELSE IF q % 2 = 0 THEN q ELSE q + 1

\* The rate check with a rate outside the allowed set replaced by the nearest
\* allowed rate.
validate_vat_rate_coercing(v) ==
    IF v \in allowed_rates THEN Ok(v)
    ELSE Ok(CHOOSE a \in allowed_rates :
                \A b \in allowed_rates : Abs(a - v) <= Abs(b - v))

\* VATBreakdown.validate_vat_rate / LineItem.validate_vat_rate: v is returned
\* as it came, or ValueError.
validate_vat_rate(v) ==
    IF v \notin allowed_rates THEN Raise("rate") ELSE Ok(v)

\* VATBreakdown.validate_vat_calculation. data is info.data: data.fields names
\* the fields validated before this one (those that failed are absent),
\* data.values holds their values.
validate_vat_calculation(v, data) ==
    IF "rate" \in data.fields /\ "base" \in data.fields
       /\ Abs(v - quantize(data.values.base * data.values.rate)) > Tolerance
    THEN Raise("amount") ELSE Ok(v)

\* VATBreakdown(rate=, base=, amount=): the fields are validated in the order
\* of their declaration (rate, base with ge=0, amount with ge=0 and then its
\* validator), every failing field is reported in one ValidationError, and
\* the object exists only if none failed.
VATBreakdown(rate, base, amount) ==
    LET r == validate_vat_rate(rate)
        bOk == base >= 0
        data == [fields |-> (IF r.ok THEN {"rate"} ELSE {})
                            \cup (IF bOk THEN {"base"} ELSE {}),
                 values |-> [rate |-> rate, base |-> base]]
        a == IF amount >= 0 THEN validate_vat_calculation(amount, data)
             ELSE Raise("amount")
        errors == (IF r.ok THEN {} ELSE {"rate"})
                  \cup (IF bOk THEN {} ELSE {"base"})
                  \cup (IF a.ok THEN {} ELSE {"amount"})
    IN  IF errors = {}
        THEN [ok |-> TRUE, errors |-> {},
              value |-> [class |-> "VATBreakdown", rate |-> r.value,
                         base |-> base, amount |-> a.value]]
        ELSE [ok |-> FALSE, errors |-> errors]

\* LineItem(...): only vat_rate is varied; the other fields are given valid.
LineItem(vat_rate) ==
    LET r == validate_vat_rate(vat_rate)
    IN  IF r.ok
        THEN [ok |-> TRUE, errors |-> {},
              value |-> [class |-> "LineItem", vat_rate |-> r.value]]
        ELSE [ok |-> FALSE, errors |-> {"vat_rate"}]

\* ParsedInvoice.validate_due_date
validate_due_date(v, data) ==
    IF "issue_date" \in data.fields /\ v < data.values.issue_date
    THEN Raise("due_date") ELSE Ok(v)

\* The supply window with its upper bound exclusive.
validate_supply_date_exclusive(v, data) ==
    IF "issue_date" \in data.fields
    THEN LET days_diff == v - data.values.issue_date
         IN  IF days_diff < 0 - MaxDaysBefore \/ days_diff >= MaxDaysAfter
             THEN Raise("supply_date") ELSE Ok(v)
    ELSE Ok(v)

\* ParsedInvoice.validate_supply_date
validate_supply_date(v, data) ==
    IF "issue_date" \in data.fields
    THEN LET days_diff == v - data.values.issue_date
         IN  IF days_diff < 0 - MaxDaysBefore \/ days_diff > MaxDaysAfter
             THEN Raise("supply_date") ELSE Ok(v)
    ELSE Ok(v)

\* sum(vat.base + vat.amount for vat in rows)
RECURSIVE vat_sum(_)
vat_sum(rows) ==
    IF rows = <<>> THEN 0
    ELSE Head(rows).base + Head(rows).amount + vat_sum(Tail(rows))

\* The total check with its tolerance exclusive.
validate_total_amount_exclusive(v, data) ==
    IF "vat_breakdowns" \in data.fields
       /\ Abs(vat_sum(data.values.vat_breakdowns) - v) >= Tolerance
    THEN Raise("total_amount") ELSE Ok(v)

\* ParsedInvoice.validate_total_amount
validate_total_amount(v, data) ==
    IF "vat_breakdowns" \in data.fields
       /\ Abs(vat_sum(data.values.vat_breakdowns) - v) > Tolerance
    THEN Raise("total_amount") ELSE Ok(v)

\* The validated fields of ParsedInvoice in the order of their declaration
\* (vendor, supplier and the optional fields left at their defaults are
\* always given valid and are not listed).
FieldOrder ==
    <<"invoice_number", "received_invoice_number", "issue_date", "due_date",
      "supply_date", "vat_breakdowns", "total_amount", "variable_symbol">>

\* The validation of one field of ParsedInvoice: its Field constraints, then
\* its field_validator.
validate_field(name, v, data) ==
    CASE name \in {"invoice_number", "received_invoice_number"} ->
            IF v > MaxInvoiceNumberLen THEN Raise(name) ELSE Ok(v)
      [] name = "issue_date" -> Ok(v)
      [] name = "due_date" -> validate_due_date(v, data)
      [] name = "supply_date" -> validate_supply_date(v, data)
      [] name = "vat_breakdowns" ->
            IF Len(v) < 1 THEN Raise(name) ELSE Ok(v)
      [] name = "total_amount" ->
            IF v < 0 THEN Raise(name) ELSE validate_total_amount(v, data)
      [] name = "variable_symbol" ->
            IF v # None /\ Get(v) > MaxSymbolLen THEN Raise(name) ELSE Ok(v)

\* The fields among the first k of FieldOrder that validate, each seeing in
\* info.data the earlier fields that validated.
RECURSIVE ValidFields(_, _)
ValidFields(args, k) ==
    IF k = 0 THEN {}
    ELSE LET before == ValidFields(args, k - 1)
             name == FieldOrder[k]
         IN  IF validate_field(name, args[name],
                               [fields |-> before, values |-> args]).ok
             THEN before \cup {name} ELSE before

\* ParsedInvoice(**args): every failing field is reported in one
\* ValidationError; the record exists only if none failed.
ParsedInvoice(args) ==
    LET valid == ValidFields(args, Len(FieldOrder))
        errors == {FieldOrder[k] : k \in 1..Len(FieldOrder)} \ valid
    IN  IF errors = {}
        THEN [ok |-> TRUE, errors |-> {},
              value |-> [class |-> "ParsedInvoice"] @@ args]
        ELSE [ok |-> FALSE, errors |-> errors]

\* model_config validate_assignment=True: self.name = v validates the one
\* field name, with info.data holding the other fields as they are.
ParsedInvoice_setattr(self, name, v) ==
    LET r == validate_field(name, v,
                 [fields |-> {FieldOrder[k] : k \in 1..Len(FieldOrder)} \ {name},
                  values |-> self])
    IN  IF r.ok
        THEN [ok |-> TRUE, errors |-> {}, value |-> [self EXCEPT ![name] = v]]
        ELSE [ok |-> FALSE, errors |-> {name}]

\* VATBreakdown declares no validate_assignment: self.name = v stores v
\* unchecked.
VATBreakdown_setattr(self, name, v) ==
    [ok |-> TRUE, errors |-> {}, value |-> [self EXCEPT ![name] = v]]

----------------------------------------------------------------------------
(* The text of a document, as the extractors see it.                        *)
(*   invoice_number   the digits "DAŇOVÝ DOKLAD ... č. <digits>" yields      *)
(*                    (their count), or None                                 *)
(*   lines            the lines around the date labels: whether the line     *)
(*                    carries the issue-date label, the tax-point-date       *)
(*                    label, and the first DD.MM.YYYY literal on it          *)
(*   due_date         the literal after "DATUM SPLATNOSTI:", or None; its    *)
(*                    line lies outside the lines above                      *)
(*   variable_symbol  the digits after "variabilní symbol" (their count)     *)
(*   supplier_name, ic, dic   what "Dodavatel:", IČO and DIČ yield           *)
(*   vat_base, vat_amount     per rate, the figures the rate's two patterns  *)
(*                    match, in the order of the text                        *)
(*   total_amount     the figure after "ČÁSTKA K ÚHRADĚ:", or None           *)

\* A DD.MM.YYYY literal that is a calendar date, and one that is not
\* (99.99.2025 matches \d{2}\.\d{2}\.\d{4} as well).
DateLiteral(day) == [shape |-> "DD.MM.YYYY", day |-> day]
MalformedLiteral == [shape |-> "DD.MM.YYYY"]

Line(issue_label, supply_label, date) ==
    [issue_label |-> issue_label, supply_label |-> supply_label, date |-> date]

\* RegexExtractor.extract_czech_date on one line: its first date literal.
extract_czech_date(line) == line.date

\* RegexExtractor.extract_czech_date on the whole text.
extract_czech_date_text(text) ==
    IF \E i \in 1..Len(text.lines) : text.lines[i].date # None
    THEN LET i == CHOOSE i \in 1..Len(text.lines) :
                    /\ text.lines[i].date # None
                    /\ \A k \in 1..(i - 1) : text.lines[k].date = None
         IN  text.lines[i].date
    ELSE text.due_date

\* PhoenixParser._parse_czech_date: datetime.strptime(date_str, "%d.%m.%Y")
_parse_czech_date(date_str) ==
    IF "day" \in DOMAIN date_str THEN Ok(date_str.day)
    ELSE Raise("Invalid date format")

\* PhoenixParser._extract_invoice_number
_extract_invoice_number(text) ==
    IF text.invoice_number = None THEN Raise("Invoice number not found")
    ELSE Ok(Get(text.invoice_number))

\* PhoenixParser._extract_issue_date: the first date literal on a label line
\* or one of the two lines after it, label lines taken in order.
_extract_issue_date(text) ==
    LET lines == text.lines
        hits == {p \in (1..Len(lines)) \X (1..Len(lines)) :
                    /\ lines[p[1]].issue_label
                    /\ p[2] >= p[1] /\ p[2] <= Min(p[1] + 2, Len(lines))
                    /\ extract_czech_date(lines[p[2]]) # None}
    IN  IF extract_czech_date_text(text) = None
        THEN Raise("Issue date not found")
        ELSE IF hits = {} THEN Raise("Issue date not found")
        ELSE LET first == CHOOSE p \in hits : \A q \in hits :
                              p[1] < q[1] \/ (p[1] = q[1] /\ p[2] <= q[2])
             IN  _parse_czech_date(Get(lines[first[2]].date))

\* PhoenixParser._extract_due_date
_extract_due_date(text) ==
    IF text.due_date = None THEN Raise("Due date not found")
    ELSE _parse_czech_date(Get(text.due_date))

\* The date literals of lines i .. min(i + 4, len), one per line, in order.
RECURSIVE dates_found(_, _, _)
dates_found(lines, j, last) ==
    IF j > last THEN <<>>
    ELSE (IF extract_czech_date(lines[j]) # None
          THEN <<Get(lines[j].date)>> ELSE <<>>)
         \o dates_found(lines, j + 1, last)

\* The supply date taken from the first literal found, whatever follows.
_extract_supply_date_first(text) ==
    LET lines == text.lines
        found(i) == dates_found(lines, i, Min(i + 4, Len(lines)))
        hits == {i \in 1..Len(lines) :
                    lines[i].supply_label /\ Len(found(i)) >= 1}
    IN  IF hits = {} THEN Raise("Supply date not found")
        ELSE LET i == CHOOSE i \in hits : \A k \in hits : i <= k
             IN  _parse_czech_date(found(i)[1])

\* PhoenixParser._extract_supply_date: at the first tax-point label line with
\* a date literal on it or on the four lines after it, the second literal,
\* or the only one.
_extract_supply_date(text) ==
    LET lines == text.lines
        found(i) == dates_found(lines, i, Min(i + 4, Len(lines)))
        hits == {i \in 1..Len(lines) :
                    lines[i].supply_label /\ Len(found(i)) >= 1}
    IN  IF hits = {} THEN Raise("Supply date not found")
        ELSE LET i == CHOOSE i \in hits : \A k \in hits : i <= k
             IN  IF Len(found(i)) >= 2 THEN _parse_czech_date(found(i)[2])
                 ELSE _parse_czech_date(found(i)[1])

\* PhoenixParser._extract_variable_symbol: the value or None, never an error.
_extract_variable_symbol(text) == Ok(text.variable_symbol)

\* PhoenixParser._extract_supplier_info
_extract_supplier_info(text) ==
    IF text.supplier_name = None THEN Raise("Supplier name not found")
    ELSE IF text.ic = None THEN Raise("Supplier ICO not found")
    ELSE IF text.dic = None THEN Raise("Supplier DIC not found")
    ELSE Ok([name |-> Get(text.supplier_name), ic |-> Get(text.ic),
             dic |-> Get(text.dic)])

\* PhoenixParser._extract_vat_base: the last match, or None.
_extract_vat_base(text, rate) ==
    LET matches == text.vat_base[rate]
    IN  IF matches # <<>> THEN Some(matches[Len(matches)]) ELSE None

\* PhoenixParser._extract_vat_amount: the last match, or None.
_extract_vat_amount(text, rate) ==
    LET matches == text.vat_amount[rate]
    IN  IF matches # <<>> THEN Some(matches[Len(matches)]) ELSE None

\* Python truth of a Decimal | None: None and Decimal("0.00") are false.
Truthy(d) == d # None /\ Get(d) # 0

\* PhoenixParser._extract_vat_breakdown, the rows it decides to build: a
\* nonzero rate when its base and its amount are both true, the zero rate
\* (amount 0.00) when its base is true.
vat_figures(text) ==
    LET base_21 == _extract_vat_base(text, "21")
        vat_21 == _extract_vat_amount(text, "21")
        base_12 == _extract_vat_base(text, "12")
        vat_12 == _extract_vat_amount(text, "12")
        base_0 == _extract_vat_base(text, "0")
    IN  (IF Truthy(base_21) /\ Truthy(vat_21)
         THEN <<[rate |-> 210, base |-> Get(base_21), amount |-> Get(vat_21)]>>
         ELSE <<>>)
        \o (IF Truthy(base_12) /\ Truthy(vat_12)
            THEN <<[rate |-> 120, base |-> Get(base_12), amount |-> Get(vat_12)]>>
            ELSE <<>>)
        \o (IF Truthy(base_0)
            THEN <<[rate |-> 0, base |-> Get(base_0), amount |-> 0]>>
            ELSE <<>>)

\* PhoenixParser._extract_vat_breakdown: the rows are constructed one after
\* the other, and the first VATBreakdown that does not validate raises.
_extract_vat_breakdown(text) ==
    LET figures == vat_figures(text)
        made == [k \in 1..Len(figures) |->
                    VATBreakdown(figures[k].rate, figures[k].base, figures[k].amount)]
    IN  IF \E k \in 1..Len(made) : ~made[k].ok
        THEN LET k == CHOOSE k \in 1..Len(made) :
                        ~made[k].ok /\ \A m \in 1..(k - 1) : made[m].ok
             IN  [ok |-> FALSE, error |-> "ValidationError",
                  errors |-> made[k].errors]
        ELSE IF made = <<>> THEN Raise("No VAT breakdown found")
        ELSE Ok([k \in 1..Len(made) |-> made[k].value])

\* PhoenixParser._extract_total_amount
_extract_total_amount(text) ==
    IF text.total_amount = None THEN Raise("Total amount not found")
    ELSE Ok(Get(text.total_amount))

----------------------------------------------------------------------------
(* The documents parse is run on *)

Text(number, lines, due, vs, name, ic, dic, b21, a21, b12, a12, b0, total) ==
    [invoice_number |-> number, lines |-> lines, due_date |-> due,
     variable_symbol |-> vs, supplier_name |-> name, ic |-> ic, dic |-> dic,
     vat_base |-> [r \in {"21", "12", "0"} |->
                     IF r = "21" THEN b21 ELSE IF r = "12" THEN b12 ELSE b0],
     vat_amount |-> [r \in {"21", "12"} |-> IF r = "21" THEN a21 ELSE a12],
     total_amount |-> total]

\* The label lines (when present) followed by one line per date literal.
LinesOf(issue_label, supply_label, run) ==
    (IF issue_label THEN <<Line(TRUE, FALSE, None)>> ELSE <<>>)
    \o (IF supply_label THEN <<Line(FALSE, TRUE, None)>> ELSE <<>>)
    \o [k \in 1..Len(run) |-> Line(FALSE, FALSE, Some(run[k]))]

\* base + amount of the rows the figures of a text make up.
FiguresSum(b21, a21, b12, a12, b0) ==
    LET last(m) == IF m = <<>> THEN 0 ELSE m[Len(m)]
    IN  (IF last(b21) # 0 /\ last(a21) # 0 THEN last(b21) + last(a21) ELSE 0)
        + (IF last(b12) # 0 /\ last(a12) # 0 THEN last(b12) + last(a12) ELSE 0)
        + last(b0)

\* The total a text states: off the sum of its rows by delta, or absent.
TotalOf(b21, a21, b12, a12, b0, delta) ==
    IF delta = None THEN None
    ELSE Some(FiguresSum(b21, a21, b12, a12, b0) + Get(delta))

NominalRun == <<DateLiteral(Issue0), DateLiteral(Issue0 + 1)>>

\* Every required field present or absent, the values ordinary.
PresenceTexts ==
    {Text(number, LinesOf(il, sl, run), due, vs, name, ic, dic,
          b21, b21a, <<>>, <<>>, <<>>, TotalOf(b21, b21a, <<>>, <<>>, <<>>, delta)) :
        number \in {None, Some(DigitsLen)},
        il \in BOOLEAN, sl \in BOOLEAN,
        run \in {<<>>, NominalRun},
        due \in {None, Some(DateLiteral(Issue0 + 14))},
        vs \in {None, Some(DigitsLen)},
        name \in {None, Some("Phoenix")},
        ic \in {None, Some("IC")},
        dic \in {None, Some("DIC")},
        b21 \in {<<>>, <<10000>>},
        b21a \in {<<>>, <<2100>>},
        delta \in {None, Some(0)}}

\* Every field present, the dates and the string lengths varied.
DateTexts ==
    {Text(number, LinesOf(TRUE, TRUE, run), due, vs,
          Some("Phoenix"), Some("IC"), Some("DIC"),
          <<10000>>, <<2100>>, <<>>, <<>>, <<>>, Some(12100 + delta)) :
        number \in {Some(DigitsLen), Some(MaxInvoiceNumberLen + 1)},
        run \in {<<DateLiteral(Issue0)>>, NominalRun, <<MalformedLiteral>>,
                 <<DateLiteral(Issue0), MalformedLiteral>>,
                 <<DateLiteral(Issue0), DateLiteral(Issue0 + MaxDaysAfter + 1)>>},
        due \in {Some(MalformedLiteral), Some(DateLiteral(Issue0 - 1)),
                 Some(DateLiteral(Issue0)), Some(DateLiteral(Issue0 + 14))},
        vs \in {None, Some(DigitsLen), Some(MaxSymbolLen + 1)},
        delta \in {0, 2}}

\* Every field present, the figures varied.
AmountTexts ==
    {Text(Some(DigitsLen), LinesOf(TRUE, TRUE, NominalRun), due, Some(DigitsLen),
          Some("Phoenix"), Some("IC"), Some("DIC"),
          b21, a21, r12[1], r12[2], b0,
          TotalOf(b21, a21, r12[1], r12[2], b0, Some(delta))) :
        due \in {Some(DateLiteral(Issue0 - 1)), Some(DateLiteral(Issue0 + 14))},
        b21 \in {<<>>, <<0>>, <<10000>>, <<5000, 10000>>},
        a21 \in {<<>>, <<0>>, <<2100>>, <<2500>>, <<1050, 2100>>},
        r12 \in {<< <<>>, <<>> >>, << <<1000>>, <<120>> >>, << <<1000>>, <<150>> >>},
        b0 \in {<<>>, <<500>>},
        delta \in {0, 1, 2}}

NominalText ==
    Text(Some(DigitsLen), LinesOf(TRUE, TRUE, NominalRun),
         Some(DateLiteral(Issue0 + 14)), Some(DigitsLen),
         Some("Phoenix"), Some("IC"), Some("DIC"),
         <<10000>>, <<2100>>, <<>>, <<>>, <<>>, Some(12100))

\* file: "missing" (pdf_path does not exist), "corrupt" (fitz.open raises),
\* "unreadable" (the file opens, reading a page raises), "ok".
DocSet ==
    {[file |-> f, text |-> NominalText] : f \in {"missing", "corrupt", "unreadable"}}
    \cup {[file |-> "ok", text |-> t] :
            t \in PresenceTexts \cup DateTexts \cup AmountTexts}

NoDoc == [file |-> "none"]

----------------------------------------------------------------------------
(* PhoenixParser.parse *)

NoOutcome == [kind |-> "none"]
Returned(record) == [kind |-> "return", value |-> record]
\* exc: the exception type; failed: the step that raised; errors: the fields
\* a pydantic ValidationError lists.
Raised(exc, failed, error, errors) ==
    [kind |-> "raise", exc |-> exc, failed |-> failed, error |-> error,
     errors |-> errors]

NoLocals ==
    [invoice_number |-> None, issue_date |-> None, due_date |-> None,
     supply_date |-> None, variable_symbol |-> None, supplier |-> None,
     vat_breakdowns |-> None, total_amount |-> None]

\* A caller calls parse(pdf_path).
parse(d) ==
    /\ pc = "idle"
    /\ doc' = d
    /\ pc' = "load_pdf"
    /\ UNCHANGED <<handle, full_text, locals, pending, outcome>>
    /\ UNCHANGED <<parserVars, objVars, vrVars, loaderVars, textVars>>

\* BaseParser.load_pdf, called before the try block of parse.
load_pdf ==
    /\ pc = "load_pdf"
    /\ IF doc.file = "missing"
       THEN /\ outcome' = Raised("PDFParseError", "load_pdf", "PDF file not found", {})
            /\ pc' = "done"
            /\ UNCHANGED handle
       ELSE IF doc.file = "corrupt"
       THEN /\ outcome' = Raised("PDFParseError", "load_pdf", "Failed to load PDF", {})
            /\ pc' = "done"
            /\ UNCHANGED handle
       ELSE /\ handle' = "open"
            /\ pc' = "get_full_text"
            /\ UNCHANGED outcome
    /\ UNCHANGED <<doc, full_text, locals, pending>>
    /\ UNCHANGED <<parserVars, objVars, vrVars, loaderVars, textVars>>

\* BaseParser.get_full_text, called before the try block of parse: what
\* page.get_text raises leaves parse as it is.
get_full_text ==
    /\ pc = "get_full_text"
    /\ IF doc.file = "unreadable"
       THEN /\ outcome' = Raised("Exception", "get_full_text", "get_text failed", {})
            /\ pc' = "done"
            /\ UNCHANGED full_text
       ELSE /\ full_text' = Some(doc.text)
            /\ pc' = "invoice_number"
            /\ UNCHANGED outcome
    /\ UNCHANGED <<doc, handle, locals, pending>>
    /\ UNCHANGED <<parserVars, objVars, vrVars, loaderVars, textVars>>

\* The statement with a failure recorded and the next statement run all the
\* same.
TryStep_goes_on(at, next, r) ==
    /\ pc = at
    /\ IF r.ok
       THEN /\ locals' = [locals EXCEPT ![at] = Some(r.value)]
            /\ UNCHANGED pending
       ELSE /\ pending' = Raised("PDFParseError", at, r.error,
                                 IF "errors" \in DOMAIN r THEN r.errors ELSE {})
            /\ UNCHANGED locals
    /\ pc' = next
    /\ UNCHANGED <<doc, handle, full_text, outcome>>
    /\ UNCHANGED <<parserVars, objVars, vrVars, loaderVars, textVars>>

\* One statement of the try block: the local is bound and parse goes on, or
\* the except clause wraps what was raised in a PDFParseError and control
\* passes to the finally clause.
TryStep(at, next, r) ==
    /\ pc = at
    /\ IF r.ok
       THEN /\ locals' = [locals EXCEPT ![at] = Some(r.value)]
            /\ pc' = next
            /\ UNCHANGED pending
       ELSE /\ pending' = Raised("PDFParseError", at, r.error,
                                 IF "errors" \in DOMAIN r THEN r.errors ELSE {})
            /\ pc' = "finally"
            /\ UNCHANGED locals
    /\ UNCHANGED <<doc, handle, full_text, outcome>>
    /\ UNCHANGED <<parserVars, objVars, vrVars, loaderVars, textVars>>

extract_invoice_number ==
    /\ pc = "invoice_number"
    /\ TryStep("invoice_number", "issue_date", _extract_invoice_number(Get(full_text)))

extract_issue_date ==
    /\ pc = "issue_date"
    /\ TryStep("issue_date", "due_date", _extract_issue_date(Get(full_text)))

extract_due_date ==
    /\ pc = "due_date"
    /\ TryStep("due_date", "supply_date", _extract_due_date(Get(full_text)))

extract_supply_date ==
    /\ pc = "supply_date"
    /\ TryStep("supply_date", "variable_symbol", _extract_supply_date(Get(full_text)))

extract_variable_symbol ==
    /\ pc = "variable_symbol"
    /\ TryStep("variable_symbol", "supplier", _extract_variable_symbol(Get(full_text)))

extract_supplier_info ==
    /\ pc = "supplier"
    /\ TryStep("supplier", "vat_breakdowns", _extract_supplier_info(Get(full_text)))

extract_vat_breakdown ==
    /\ pc = "vat_breakdowns"
    /\ TryStep("vat_breakdowns", "total_amount", _extract_vat_breakdown(Get(full_text)))

extract_total_amount ==
    /\ pc = "total_amount"
    /\ TryStep("total_amount", "ParsedInvoice", _extract_total_amount(Get(full_text)))

\* The arguments parse gives ParsedInvoice.
InvoiceArgs(l) ==
    [vendor |-> "Phoenix",
     invoice_number |-> Get(l.invoice_number),
     received_invoice_number |-> Get(l.invoice_number),
     issue_date |-> Get(l.issue_date),
     due_date |-> Get(l.due_date),
     supply_date |-> Get(l.supply_date),
     supplier |-> Get(l.supplier),
     vat_breakdowns |-> Get(l.vat_breakdowns),
     total_amount |-> Get(l.total_amount),
     variable_symbol |-> Get(l.variable_symbol)]

\* The construction step with the record handed on without its validation.
construct_invoice_unvalidated ==
    /\ pc = "ParsedInvoice"
    /\ pending' = Returned([class |-> "ParsedInvoice"] @@ InvoiceArgs(locals))
    /\ pc' = "finally"
    /\ UNCHANGED <<doc, handle, full_text, locals, outcome>>
    /\ UNCHANGED <<parserVars, objVars, vrVars, loaderVars, textVars>>

\* invoice = ParsedInvoice(...); return invoice
construct_invoice ==
    /\ pc = "ParsedInvoice"
    /\ LET r == ParsedInvoice(InvoiceArgs(locals))
       IN  IF r.ok
           THEN pending' = Returned(r.value)
           ELSE pending' = Raised("PDFParseError", "ParsedInvoice",
                                  "ValidationError", r.errors)
    /\ pc' = "finally"
    /\ UNCHANGED <<doc, handle, full_text, locals, outcome>>
    /\ UNCHANGED <<parserVars, objVars, vrVars, loaderVars, textVars>>

\* finally: doc.close(); then the caller gets the record or the error.
finally ==
    /\ pc = "finally"
    /\ handle' = "closed"
    /\ outcome' = pending
    /\ pc' = "done"
    /\ UNCHANGED <<doc, full_text, locals, pending>>
    /\ UNCHANGED <<parserVars, objVars, vrVars, loaderVars, textVars>>

ParseIdle ==
    /\ doc = NoDoc
    /\ pc = "idle"
    /\ handle = "none"
    /\ full_text = None
    /\ locals = NoLocals
    /\ pending = NoOutcome
    /\ outcome = NoOutcome

ParseNext ==
    \/ \E d \in DocSet : parse(d)
    \/ load_pdf
    \/ get_full_text
    \/ extract_invoice_number
    \/ extract_issue_date
    \/ extract_due_date
    \/ extract_supply_date
    \/ extract_variable_symbol
    \/ extract_supplier_info
    \/ extract_vat_breakdown
    \/ extract_total_amount
    \/ construct_invoice
    \/ finally

----------------------------------------------------------------------------
(* Several calls of parse on one parser, run by threads. Every name parse    *)
(* binds (doc, full_text, the extracted fields, invoice) is a local of the   *)
(* call; the parser object holds config and logger and parse assigns neither.*)
(* The variables doc .. outcome are the frame of the call that is running;   *)
(* others holds the frames of the calls that are not.                        *)

Frame ==
    [doc |-> doc, pc |-> pc, handle |-> handle, full_text |-> full_text,
     locals |-> locals, pending |-> pending, outcome |-> outcome]

IdleFrame ==
    [doc |-> NoDoc, pc |-> "idle", handle |-> "none", full_text |-> None,
     locals |-> NoLocals, pending |-> NoOutcome, outcome |-> NoOutcome]

\* The documents of the parallel calls: two that parse, to different records;
\* one without a due date; one whose total does not reconcile; and a file
\* that is absent, one that does not open and one that does not read.
ParallelDocs ==
    {[file |-> f, text |-> NominalText] :
        f \in {"ok", "missing", "corrupt", "unreadable"}}
    \cup {[file |-> "ok", text |-> t] : t \in
            {[NominalText EXCEPT !.invoice_number = Some(DigitsLen - 1)],
             [NominalText EXCEPT !.due_date = None],
             [NominalText EXCEPT !.total_amount = Some(12100 + Tolerance + 1)]}}

\* The threads switch with the text of the call kept in one place for all
\* of them.
switch_sharing_text ==
    \E k \in 1..Len(others) :
        /\ doc' = others[k].doc
        /\ pc' = others[k].pc
        /\ handle' = others[k].handle
        /\ locals' = others[k].locals
        /\ pending' = others[k].pending
        /\ outcome' = others[k].outcome
        /\ others' = [others EXCEPT ![k] = Frame]
        /\ UNCHANGED <<full_text, config>>
        /\ UNCHANGED <<objVars, vrVars, loaderVars, textVars>>

\* The running thread is suspended and another runs: its call goes on with
\* its own locals, and the parser is as it was.
switch ==
    \E k \in 1..Len(others) :
        /\ doc' = others[k].doc
        /\ pc' = others[k].pc
        /\ handle' = others[k].handle
        /\ full_text' = others[k].full_text
        /\ locals' = others[k].locals
        /\ pending' = others[k].pending
        /\ outcome' = others[k].outcome
        /\ others' = [others EXCEPT ![k] = Frame]
        /\ UNCHANGED config
        /\ UNCHANGED <<objVars, vrVars, loaderVars, textVars>>

ParallelNext ==
    \/ \E d \in ParallelDocs : parse(d)
    \/ load_pdf
    \/ get_full_text
    \/ extract_invoice_number
    \/ extract_issue_date
    \/ extract_due_date
    \/ extract_supply_date
    \/ extract_variable_symbol
    \/ extract_supplier_info
    \/ extract_vat_breakdown
    \/ extract_total_amount
    \/ construct_invoice
    \/ finally
    \/ switch

----------------------------------------------------------------------------
(* Objects of the models: construction and attribute assignment *)

NoObject == [class |-> "none"]
NoCall == [op |-> "none"]

ObjIdle ==
    /\ obj = NoObject
    /\ call = NoCall
    /\ raised = {}

\* The inputs the models are driven with.
Rates == allowed_rates \cup {200, 215}
Bases == {0 - 100, 0, 50, 150}
Amounts == {0 - 1, 0, 1, 2, 8, 9, 10, 11, 12, 30, 31, 32, 33, 34}
IssueDates == {Issue0, Issue0 + 1}
DueDates == {Issue0 - 1, Issue0, Issue0 + 1}
SupplyDates ==
    {Issue0 - MaxDaysBefore - 1, Issue0 - MaxDaysBefore, Issue0 - MaxDaysBefore + 1,
     Issue0 + MaxDaysAfter - 1, Issue0 + MaxDaysAfter, Issue0 + MaxDaysAfter + 1,
     Issue0 + MaxDaysAfter + 2}
Row21 == VATBreakdown(210, 10000, 2100).value
Row0 == VATBreakdown(0, 500, 0).value
RowLists == {<<>>, <<Row21>>, <<Row21, Row0>>}
Totals ==
    {0 - 1} \cup {s + d : s \in {12100, 12600}, d \in {0 - 2, 0 - 1, 0, 1, 2}}

InvoiceInputs ==
    {[vendor |-> "Phoenix", invoice_number |-> DigitsLen,
      received_invoice_number |-> DigitsLen, issue_date |-> i, due_date |-> d,
      supply_date |-> s, supplier |-> [name |-> "Phoenix", ic |-> "IC", dic |-> "DIC"],
      vat_breakdowns |-> rows, total_amount |-> t, variable_symbol |-> None] :
        i \in IssueDates, d \in DueDates, s \in SupplyDates,
        rows \in RowLists, t \in Totals}

\* The values an attribute of a ParsedInvoice is assigned.
AssignValues(name) ==
    CASE name = "issue_date" -> IssueDates
      [] name = "due_date" -> DueDates
      [] name = "supply_date" -> SupplyDates
      [] name = "vat_breakdowns" -> RowLists
      [] name = "total_amount" -> Totals

\* A constructor call, one in a behaviour: the object exists if it validated.
Construct(class, args, r) ==
    /\ obj = NoObject
    /\ call = NoCall
    /\ obj' = IF r.ok THEN r.value ELSE obj
    /\ call' = [op |-> "init", class |-> class, args |-> args]
    /\ raised' = r.errors
    /\ UNCHANGED <<parseVars, parserVars, vrVars, loaderVars, textVars>>

\* An attribute assignment: the object changes if the value validated.
Assign(name, v, r) ==
    /\ obj' = IF r.ok THEN r.value ELSE obj
    /\ call' = [op |-> "setattr", name |-> name, value |-> v, before |-> obj]
    /\ raised' = r.errors
    /\ UNCHANGED <<parseVars, parserVars, vrVars, loaderVars, textVars>>

VATBreakdown_init ==
    /\ obj = NoObject
    /\ \E rate \in Rates, base \in Bases, amount \in Amounts :
        Construct("VATBreakdown", [rate |-> rate, base |-> base, amount |-> amount],
                  VATBreakdown(rate, base, amount))

VATBreakdown_assign ==
    /\ obj.class = "VATBreakdown"
    /\ \/ \E v \in Rates : Assign("rate", v, VATBreakdown_setattr(obj, "rate", v))
       \/ \E v \in Bases : Assign("base", v, VATBreakdown_setattr(obj, "base", v))
       \/ \E v \in Amounts : Assign("amount", v, VATBreakdown_setattr(obj, "amount", v))

LineItem_init ==
    /\ obj = NoObject
    /\ \E vat_rate \in Rates :
        Construct("LineItem", [vat_rate |-> vat_rate], LineItem(vat_rate))

ParsedInvoice_init ==
    /\ obj = NoObject
    /\ \E args \in InvoiceInputs : Construct("ParsedInvoice", args, ParsedInvoice(args))

ParsedInvoice_assign ==
    /\ obj.class = "ParsedInvoice"
    /\ \E name \in {"issue_date", "due_date", "supply_date", "vat_breakdowns",
                    "total_amount"} :
          \E v \in AssignValues(name) :
              Assign(name, v, ParsedInvoice_setattr(obj, name, v))

ObjNext ==
    \/ VATBreakdown_init
    \/ VATBreakdown_assign
    \/ LineItem_init
    \/ ParsedInvoice_init
    \/ ParsedInvoice_assign

----------------------------------------------------------------------------
(* src/models/validation_result.py *)

Codes == {"VAT_MISMATCH", "TOTAL_MISMATCH"}

ValidationMessage(severity, code) == [severity |-> severity, code |-> code]

\* ValidationResult(is_valid=, errors=): is_valid is a required field that
\* no validator ties to errors.
ValidationResult(is_valid, errors) ==
    [is_valid |-> is_valid, errors |-> errors, warnings |-> <<>>, info |-> <<>>]

NoResult == [is_valid |-> TRUE, errors |-> <<>>, warnings |-> <<>>, info |-> <<>>]

VrIdle ==
    /\ vr = NoResult
    /\ ctor = NoResult

VrInit ==
    /\ \E is_valid \in BOOLEAN :
         \E errors \in {<<>>} \cup {<<ValidationMessage("error", c)>> : c \in Codes} :
            vr = ValidationResult(is_valid, errors)
    /\ ctor = vr

\* add_error without self.is_valid = False.
add_error_keeps_is_valid(code) ==
    /\ Len(vr.errors) < MaxMessages
    /\ vr' = [vr EXCEPT !.errors = Append(@, ValidationMessage("error", code))]
    /\ UNCHANGED <<ctor, parseVars, parserVars, objVars, loaderVars, textVars>>

add_error(code) ==
    /\ Len(vr.errors) < MaxMessages
    /\ vr' = [vr EXCEPT !.errors = Append(@, ValidationMessage("error", code)),
                        !.is_valid = FALSE]
    /\ UNCHANGED <<ctor, parseVars, parserVars, objVars, loaderVars, textVars>>

\* add_warning that also sets self.is_valid = True.
add_warning_sets_is_valid(code) ==
    /\ Len(vr.warnings) < MaxMessages
    /\ vr' = [vr EXCEPT !.warnings = Append(@, ValidationMessage("warning", code)),
                        !.is_valid = TRUE]
    /\ UNCHANGED <<ctor, parseVars, parserVars, objVars, loaderVars, textVars>>

add_warning(code) ==
    /\ Len(vr.warnings) < MaxMessages
    /\ vr' = [vr EXCEPT !.warnings = Append(@, ValidationMessage("warning", code))]
    /\ UNCHANGED <<ctor, parseVars, parserVars, objVars, loaderVars, textVars>>

add_info(code) ==
    /\ Len(vr.info) < MaxMessages
    /\ vr' = [vr EXCEPT !.info = Append(@, ValidationMessage("info", code))]
    /\ UNCHANGED <<ctor, parseVars, parserVars, objVars, loaderVars, textVars>>

VrNext ==
    \/ \E c \in Codes : add_error(c)
    \/ \E c \in Codes : add_warning(c)
    \/ \E c \in Codes : add_info(c)

----------------------------------------------------------------------------
(* The VAT figures of a text, as the two patterns of _extract_vat_base and   *)
(* _extract_vat_amount find them. The text is a sequence of tokens: the      *)
(* literal "<rate>%", a figure "d ddd,dd", and filler of a given length      *)
(* holding neither.                                                          *)

RateLiteral(r) == [kind |-> "rate", rate |-> r, width |-> 3]
Figure(v) == [kind |-> "figure", value |-> v, width |-> 8]
Filler(n) == [kind |-> "filler", width |-> n]

\* [\s\S]{0,100}? between the rate literal and the first figure, and
\* [\s\S]{0,50}? between the first figure and the second.
BaseWindow == 100
AmountWindow == 50

\* The characters between tokens i and j.
Between(text, i, j) ==
    SumSeq([k \in 1..(j - i - 1) |-> text[i + k].width])

\* The first figure after token i at most window characters on: the lazy
\* quantifier stops at the nearest. 0 when there is none.
NextFigure(text, i, window) ==
    LET js == {j \in (i + 1)..Len(text) :
                  text[j].kind = "figure" /\ Between(text, i, j) <= window}
    IN  IF js = {} THEN 0 ELSE CHOOSE j \in js : \A m \in js : j <= m

\* Pattern.match at token i. pattern.rate is the rate of the literal and
\* pattern.group the figure captured: the first (the base pattern) or the
\* second (the amount pattern, which asks for a figure, at most 50 characters,
\* and the captured figure; when the nearest first figure has no second one
\* in reach the pattern backtracks to a later first figure).
\* The result is the token captured, or 0.
match_at(text, i, pattern) ==
    IF text[i].kind # "rate" \/ text[i].rate # pattern.rate THEN 0
    ELSE IF pattern.group = 1 THEN NextFigure(text, i, BaseWindow)
    ELSE LET js == {j \in (i + 1)..Len(text) :
                       /\ text[j].kind = "figure"
                       /\ Between(text, i, j) <= BaseWindow
                       /\ NextFigure(text, j, AmountWindow) # 0}
         IN  IF js = {} THEN 0
             ELSE NextFigure(text, CHOOSE j \in js : \A m \in js : j <= m,
                             AmountWindow)

\* RegexExtractor.extract_all_matches: pattern.finditer(text), the matches
\* from left to right without overlap, each as [at |-> the token of the rate
\* literal it starts at, group |-> the token captured].
RECURSIVE finditer(_, _, _)
finditer(text, pattern, pos) ==
    IF pos > Len(text) THEN <<>>
    ELSE LET g == match_at(text, pos, pattern)
         IN  IF g = 0 THEN finditer(text, pattern, pos + 1)
             ELSE <<[at |-> pos, group |-> g]>> \o finditer(text, pattern, g + 1)

extract_all_matches(text, pattern) == finditer(text, pattern, 1)

\* The pattern of _extract_vat_base and that of _extract_vat_amount.
BasePattern(rate) == [rate |-> rate, group |-> 1]
AmountPattern(rate) == [rate |-> rate, group |-> 2]

\* clean_czech_number and Decimal(...) of every match.
MatchedValues(text, pattern) ==
    LET ms == extract_all_matches(text, pattern)
    IN  [k \in 1..Len(ms) |-> text[ms[k].group].value]

\* The text as _extract_vat_breakdown sees it: per rate, the matches of the
\* base pattern and those of the amount pattern.
RecapText(tokens) ==
    [vat_base |-> [r \in {"21", "12", "0"} |-> MatchedValues(tokens, BasePattern(r))],
     vat_amount |-> [r \in {"21", "12"} |-> MatchedValues(tokens, AmountPattern(r))]]

\* The texts: up to MaxTokens tokens.
Tokens ==
    {RateLiteral("21"), RateLiteral("12"), Figure(10000), Figure(2100),
     Figure(5000), Filler(60), Filler(120)}

RecapTexts == UNION {[1..n -> Tokens] : n \in 0..MaxTokens}

NoRows == [ok |-> FALSE, error |-> "none"]

NoDates == [issue_date |-> None, supply_date |-> None]

\* No extractor function called, and a call that has not returned.
NoExtract == [op |-> "none"]
NotReturned == [done |-> FALSE]
ExtractorIdle ==
    /\ ex_call = NoExtract
    /\ ex_ret = NotReturned

TextIdle ==
    /\ recap = <<>>
    /\ recap_rows = NoRows
    /\ date_text = [lines |-> <<>>, due_date |-> None]
    /\ dates = NoDates
    /\ ExtractorIdle

TextGiven ==
    /\ recap \in RecapTexts
    /\ recap_rows = NoRows
    /\ date_text = [lines |-> <<>>, due_date |-> None]
    /\ dates = NoDates
    /\ ExtractorIdle

\* The lines of the texts of dates: a line with the issue-date label, one with
\* the tax-point-date label, one with neither, and lines carrying a date
\* literal.
LineKinds ==
    {Line(TRUE, FALSE, None), Line(FALSE, TRUE, None), Line(FALSE, FALSE, None),
     Line(FALSE, FALSE, Some(DateLiteral(Issue0))),
     Line(FALSE, FALSE, Some(DateLiteral(Issue0 + 1)))}

DateLayouts == {[lines |-> l, due_date |-> None] : l \in UNION {[1..n -> LineKinds] : n \in 0..MaxLines}}

DatesGiven ==
    /\ recap = <<>>
    /\ recap_rows = NoRows
    /\ date_text \in DateLayouts
    /\ dates = NoDates
    /\ ExtractorIdle

\* issue_date = self._extract_issue_date(full_text) and
\* supply_date = self._extract_supply_date(full_text) on the text.
extract_dates ==
    /\ dates = NoDates
    /\ dates' = [issue_date |-> Some(_extract_issue_date(date_text)),
                 supply_date |-> Some(_extract_supply_date(date_text))]
    /\ UNCHANGED <<recap, recap_rows, date_text, ex_call, ex_ret>>
    /\ UNCHANGED <<parseVars, parserVars, objVars, vrVars, loaderVars>>

\* self._extract_vat_breakdown(full_text) on the text.
extract_recap ==
    /\ recap_rows = NoRows
    /\ recap_rows' = _extract_vat_breakdown(RecapText(recap))
    /\ UNCHANGED <<recap, date_text, dates, ex_call, ex_ret>>
    /\ UNCHANGED <<parseVars, parserVars, objVars, vrVars, loaderVars>>

----------------------------------------------------------------------------
(* src/models/vendor_config.py and BaseParser.__init__: the parser's          *)
(* configuration                                                             *)

\* FieldConfig: of its fields only required is varied (default True).
FieldConfig(required) ==
    [extraction_strategy |-> "position", required |-> required]

\* VendorConfiguration of Phoenix, the required flags of the due date and of
\* the variable symbol as given; every other field is left at the default.
VendorConfiguration(due_date_required, variable_symbol_required) ==
    [vendor_name |-> "Phoenix", vendor_code |-> "phoenix",
     header |-> [invoice_number |-> FieldConfig(TRUE),
                 issue_date |-> FieldConfig(TRUE),
                 due_date |-> FieldConfig(due_date_required),
                 supply_date |-> FieldConfig(TRUE),
                 variable_symbol |-> FieldConfig(variable_symbol_required)],
     total_amount |-> FieldConfig(TRUE)]

\* BaseParser.__init__: self.config = config. No parse is running yet.
BaseParser_init(cfg) ==
    /\ config = cfg
    /\ others = <<>>

\* A parser constructed with every FieldConfig at its defaults.
ParserIdle == BaseParser_init(VendorConfiguration(TRUE, TRUE))

\* A parser constructed with one of the configurations.
ParserConfigured ==
    \E d \in BOOLEAN, v \in BOOLEAN : BaseParser_init(VendorConfiguration(d, v))

\* One PhoenixParser and the calls other threads are going to make on it.
ParallelIdle ==
    /\ config = VendorConfiguration(TRUE, TRUE)
    /\ others = [k \in 1..(NParses - 1) |-> IdleFrame]

\* No ConfigLoader in use.
LoaderIdle ==
    /\ files = <<>>
    /\ cache = <<>>
    /\ reads = <<>>
    /\ callers = <<>>

----------------------------------------------------------------------------
(* src/config/config_loader.py: ConfigLoader.load_vendor_config under        *)
(* functools.lru_cache(maxsize=10), and clear_cache.                         *)
(*   files    the vendor codes the callers ask for, and the state of each    *)
(*            one's <vendor_code>_config.yaml                                *)
(*   cache    the lru_cache: its keys with their configurations, least       *)
(*            recently used first, and its count of hits                     *)
(*   reads    per vendor code, how often its file was read and validated     *)
(*            since the cache was last cleared                               *)
(*   callers  per thread, where it is in a call and what the call returned   *)

\* @lru_cache(maxsize=10)
MaxSize == 10

\* One vendor code more than the cache holds.
NVendors == MaxSize + 1

\* What a vendor's configuration file can be: present and valid; absent; not
\* YAML; YAML that is no VendorConfiguration; present but failing in open()
\* or read(); in a directory whose entries the process may not stat().
FileStates ==
    {"ok", "missing", "unparseable", "invalid", "unreadable", "inaccessible"}

ConfigurationError(vendor_code, message) ==
    [ok |-> FALSE, exc |-> "ConfigurationError",
     vendor_code |-> Some(vendor_code), error |-> message]

\* An exception load_vendor_config does not wrap; its message holds the path.
Unwrapped(exc) == [ok |-> FALSE, exc |-> exc, vendor_code |-> None, error |-> exc]

\* The VendorConfiguration object the n-th load of a vendor's file makes.
Loaded(vendor_code, n) ==
    [ok |-> TRUE, value |-> [vendor_code |-> vendor_code, load |-> n]]

\* The body of load_vendor_config: what the n-th run on a file in the given
\* state can end in. config_file.exists() stands before the try: it is False
\* for an absent file, and for a file that stat() may not reach it raises
\* PermissionError (pathlib up to Python 3.13) or is False (3.14).
load_vendor_config(vendor_code, state, n) ==
    CASE state = "missing" ->
            {ConfigurationError(vendor_code, "Configuration file not found")}
      [] state = "inaccessible" ->
            {Unwrapped("PermissionError"),
             ConfigurationError(vendor_code, "Configuration file not found")}
      [] state = "unparseable" ->
            {ConfigurationError(vendor_code, "Failed to parse YAML configuration")}
      [] state = "invalid" ->
            {ConfigurationError(vendor_code, "Invalid configuration")}
      [] state = "unreadable" ->
            {ConfigurationError(vendor_code, "Unexpected error loading configuration")}
      [] state = "ok" -> {Loaded(vendor_code, n)}

\* A thread outside load_vendor_config, with what its last call ended in.
Returned_to(vendor_code, result) ==
    [pc |-> "idle", vendor_code |-> vendor_code, result |-> result]
NotCalled == Returned_to(0, None)

EmptyCache == [entries |-> <<>>, hits |-> 0]

\* ConfigLoader() with an empty cache, the files of the vendor codes in one
\* of the given states, and the threads that use it.
ConfigLoader_init(codes, states, threads) ==
    /\ files \in states
    /\ cache = EmptyCache
    /\ reads = [c \in codes |-> 0]
    /\ callers = [t \in threads |-> NotCalled]

Keys(entries) == {entries[k].key : k \in 1..Len(entries)}
Without(entries, key) == SelectSeq(entries, LAMBDA e : e.key # key)
Entry(entries, key) ==
    entries[CHOOSE k \in 1..Len(entries) : entries[k].key = key]

\* A thread calls load_vendor_config(vendor_code): the lru_cache wrapper
\* looks the key up. A hit returns the cached configuration and makes the key
\* the most recently used; a miss goes on to run the function. Vendor codes
\* are taken up in their order: a code is asked for only when every lower one
\* has been loaded or has a file that does not load.
lookup(t, vendor_code) ==
    /\ callers[t].pc = "idle"
    /\ vendor_code \in DOMAIN files
    /\ \A c \in DOMAIN files : c < vendor_code => (reads[c] > 0 \/ files[c] # "ok")
    /\ IF vendor_code \in Keys(cache.entries)
       THEN LET e == Entry(cache.entries, vendor_code)
            IN  /\ cache.hits < MaxHits
                /\ cache' = [entries |-> Append(Without(cache.entries, vendor_code), e),
                             hits |-> cache.hits + 1]
                /\ callers' = [callers EXCEPT ![t] = Returned_to(vendor_code, Some(e.value))]
       ELSE /\ reads[vendor_code] < MaxReads
            /\ callers' = [callers EXCEPT ![t] =
                             [pc |-> "miss", vendor_code |-> vendor_code, result |-> None]]
            /\ UNCHANGED cache
    /\ UNCHANGED <<files, reads>>
    /\ UNCHANGED <<parseVars, parserVars, objVars, vrVars, textVars>>

\* run with a wrapper that keeps what the function raised as the result for
\* the key.
run_caching_failure(t) ==
    /\ callers[t].pc = "miss"
    /\ LET c == callers[t].vendor_code
       IN  \E r \in load_vendor_config(c, files[c], reads[c] + 1) :
              /\ reads' = [reads EXCEPT ![c] = IF r.ok THEN @ + 1 ELSE @]
              /\ callers' = [callers EXCEPT ![t] =
                               IF r.ok
                               THEN [pc |-> "loaded", vendor_code |-> c, result |-> Some(r)]
                               ELSE Returned_to(c, Some(r))]
              /\ cache' = IF r.ok \/ c \in Keys(cache.entries) THEN cache
                          ELSE [cache EXCEPT !.entries =
                                   Append(@, [key |-> c, value |-> r])]
    /\ UNCHANGED files
    /\ UNCHANGED <<parseVars, parserVars, objVars, vrVars, textVars>>

\* The wrapped function runs, outside the cache's lock: it returns a
\* configuration, or raises, and what it raises leaves the call at once and
\* is not cached.
run(t) ==
    /\ callers[t].pc = "miss"
    /\ LET c == callers[t].vendor_code
       IN  \E r \in load_vendor_config(c, files[c], reads[c] + 1) :
              /\ reads' = [reads EXCEPT ![c] = IF r.ok THEN @ + 1 ELSE @]
              /\ callers' = [callers EXCEPT ![t] =
                               IF r.ok
                               THEN [pc |-> "loaded", vendor_code |-> c, result |-> Some(r)]
                               ELSE Returned_to(c, Some(r))]
    /\ UNCHANGED <<files, cache>>
    /\ UNCHANGED <<parseVars, parserVars, objVars, vrVars, textVars>>

\* The wrapper stores the result and returns it. A key another thread has
\* stored in the meantime is left as it is; a full cache drops its least
\* recently used key first.
store(t) ==
    /\ callers[t].pc = "loaded"
    /\ LET c == callers[t].vendor_code
           r == Get(callers[t].result)
           kept == IF Len(cache.entries) >= MaxSize THEN Tail(cache.entries)
                   ELSE cache.entries
       IN  /\ cache' = IF c \in Keys(cache.entries) THEN cache
                       ELSE [cache EXCEPT !.entries = Append(kept, [key |-> c, value |-> r])]
           /\ callers' = [callers EXCEPT ![t] = Returned_to(c, Some(r))]
    /\ UNCHANGED <<files, reads>>
    /\ UNCHANGED <<parseVars, parserVars, objVars, vrVars, textVars>>

\* clear_cache(): self.load_vendor_config.cache_clear()
clear_cache(t) ==
    /\ callers[t].pc = "idle"
    /\ cache' = EmptyCache
    /\ reads' = [c \in DOMAIN files |-> 0]
    /\ UNCHANGED <<files, callers>>
    /\ UNCHANGED <<parseVars, parserVars, objVars, vrVars, textVars>>

LoaderNext ==
    \/ \E t \in DOMAIN callers, vendor_code \in DOMAIN files : lookup(t, vendor_code)
    \/ \E t \in DOMAIN callers : run(t)
    \/ \E t \in DOMAIN callers : store(t)
    \/ \E t \in DOMAIN callers : clear_cache(t)

\* The file of a vendor code that does not load is replaced by a valid one,
\* at any moment, also while a thread is inside a call for that code:
\* load_vendor_config reads the file anew on every run.
repair(vendor_code) ==
    /\ vendor_code \in DOMAIN files
    /\ files[vendor_code] # "ok"
    /\ files' = [files EXCEPT ![vendor_code] = "ok"]
    /\ UNCHANGED <<cache, reads, callers>>
    /\ UNCHANGED <<parseVars, parserVars, objVars, vrVars, textVars>>

\* The calls of load_vendor_config and the repairs of files, with no
\* clear_cache.
LoaderRepairNext ==
    \/ \E t \in DOMAIN callers, vendor_code \in DOMAIN files : lookup(t, vendor_code)
    \/ \E t \in DOMAIN callers : run(t)
    \/ \E t \in DOMAIN callers : store(t)
    \/ \E vendor_code \in DOMAIN files : repair(vendor_code)

----------------------------------------------------------------------------
(* src/parsers/extractors/regex_extractor.py and keyword_extractor.py, each  *)
(* function called by itself. A str is Some(text), Python's None is None.    *)

\* What a call handed back: the value returned.
Return(v) == [done |-> TRUE, value |-> v]

\* re.Match objects. groups[1] is group 0, the whole match; groups[k + 1] is
\* capture group k: its text, or None when the group took no part in the match.
GroupTexts == {"a", "b"}
MatchObjects(ngroups) ==
    {[groups |-> <<Some(t)>> \o g] :
        t \in GroupTexts,
        g \in [1..ngroups -> {None} \cup {Some(x) : x \in GroupTexts}]}

\* A text searched with a pattern: the number of capture groups of the pattern
\* and the matches pattern.finditer(text) yields, from left to right.
Searches ==
    UNION {{[ngroups |-> n, matches |-> ms] :
               ms \in UNION {[1..k -> MatchObjects(n)] : k \in 0..MaxMatches}} :
           n \in 0..MaxGroups}

\* The group indexes asked for: 0, the capture groups, and one beyond them.
GroupIndexes == 0..(MaxGroups + 1)

\* match.group(group): IndexError when the pattern has no such group.
match_group(m, group) ==
    IF group >= Len(m.groups) THEN Raise("IndexError")
    ELSE Ok(m.groups[group + 1])

\* RegexExtractor.extract_first_match
extract_first_match(search, group) ==
    IF search.matches # <<>>
    THEN LET value == match_group(search.matches[1], group)
         IN  IF value.ok THEN value.value ELSE None
    ELSE None

\* RegexExtractor.extract_all_matches with its group argument: the loop over
\* pattern.finditer(text).
RECURSIVE extract_all_matches_group(_, _)
extract_all_matches_group(search, group) ==
    IF search.matches = <<>> THEN <<>>
    ELSE LET value == match_group(search.matches[1], group)
             rest == extract_all_matches_group(
                         [search EXCEPT !.matches = Tail(search.matches)], group)
         IN  IF value.ok THEN <<value.value>> \o rest ELSE rest

RegexCalls ==
    {[op |-> op, search |-> s, group |-> g] :
        op \in {"extract_first_match", "extract_all_matches"},
        s \in Searches, g \in GroupIndexes}

call_extract_first_match ==
    /\ ex_call.op = "extract_first_match"
    /\ ex_ret = NotReturned
    /\ ex_ret' = Return(extract_first_match(ex_call.search, ex_call.group))
    /\ UNCHANGED <<recap, recap_rows, date_text, dates, ex_call>>
    /\ UNCHANGED <<parseVars, parserVars, objVars, vrVars, loaderVars>>

call_extract_all_matches ==
    /\ ex_call.op = "extract_all_matches"
    /\ ex_ret = NotReturned
    /\ ex_ret' = Return(extract_all_matches_group(ex_call.search, ex_call.group))
    /\ UNCHANGED <<recap, recap_rows, date_text, dates, ex_call>>
    /\ UNCHANGED <<parseVars, parserVars, objVars, vrVars, loaderVars>>

\* A str as the sequence of its characters. str.replace(old, new) for a
\* one-character old and a new of at most one character.
RECURSIVE str_replace(_, _, _)
str_replace(s, old, new) ==
    IF s = <<>> THEN <<>>
    ELSE (IF s[1] = old THEN new ELSE <<s[1]>>) \o str_replace(Tail(s), old, new)

\* The cleaning with the first comma replaced only.
clean_czech_number_first_comma(value) ==
    LET cleaned == str_replace(value, " ", <<>>)
        commas == {k \in 1..Len(cleaned) : cleaned[k] = ","}
    IN  IF commas = {} THEN cleaned
        ELSE [cleaned EXCEPT ![CHOOSE k \in commas : \A m \in commas : k <= m] = "."]

\* RegexExtractor.clean_czech_number
clean_czech_number(value) ==
    LET cleaned == str_replace(value, " ", <<>>)
    IN  str_replace(cleaned, ",", <<".">>)

\* Decimal(s) for a str of digits and points: the exact value coefficient *
\* 10^exponent, or decimal.InvalidOperation.
Digits == <<"0", "1", "2", "3", "4", "5", "6", "7", "8", "9">>
DigitValue(c) == (CHOOSE k \in 1..Len(Digits) : Digits[k] = c) - 1
RECURSIVE Coefficient(_)
Coefficient(s) ==
    IF s = <<>> THEN 0
    ELSE 10 * Coefficient(SubSeq(s, 1, Len(s) - 1)) + DigitValue(s[Len(s)])
Decimal(s) ==
    LET IsDigit(c) == \E k \in 1..Len(Digits) : Digits[k] = c
        points == {k \in 1..Len(s) : s[k] = "."}
        digits == SelectSeq(s, IsDigit)
    IN  IF /\ \A k \in 1..Len(s) : IsDigit(s[k]) \/ s[k] = "."
           /\ Cardinality(points) <= 1
           /\ digits # <<>>
        THEN Ok([coefficient |-> Coefficient(digits),
                 exponent |-> IF points = {} THEN 0
                              ELSE (CHOOSE k \in points : TRUE) - Len(s)])
        ELSE Raise("InvalidOperation")

\* The strs cleaned: every str of up to MaxChars characters out of a digit, a
\* space, a comma and a point, and the figure "1 234,56".
NumberStrs ==
    UNION {[1..n -> {"1", " ", ",", "."}] : n \in 0..MaxChars}
    \cup {<<"1", " ", "2", "3", "4", ",", "5", "6">>}

NumberCalls == {[op |-> "clean_czech_number", value |-> s] : s \in NumberStrs}

call_clean_czech_number ==
    /\ ex_call.op = "clean_czech_number"
    /\ ex_ret = NotReturned
    /\ ex_ret' = Return(Some(clean_czech_number(ex_call.value)))
    /\ UNCHANGED <<recap, recap_rows, date_text, dates, ex_call>>
    /\ UNCHANGED <<parseVars, parserVars, objVars, vrVars, loaderVars>>

\* Texts searched for a keyword, as sequences of tokens: "K" the keyword in
\* the casing of the keyword argument, "k" the keyword in another casing, ":"
\* a colon, " " a whitespace character, "v" a word character outside any
\* keyword, "x" any other character. The pattern is \w+, with or without a
\* capture group around it: it matches a run of "K", "k" and "v".
KeywordTokens == {"K", "k", ":", " ", "v", "x"}
KeywordTexts == UNION {[1..n -> KeywordTokens] : n \in 0..MaxKeywordLen}
IsKeyword(t) == t \in {"K", "k"}
IsSeparator(t) == t \in {":", " "}
IsWord(t) == t \in {"K", "k", "v"}

\* The end of the longest run of separators, and of word characters, that
\* starts after token i (i itself when the run is empty).
SeparatorsEnd(text, i) ==
    LET ends == {j \in i..Len(text) : \A k \in (i + 1)..j : IsSeparator(text[k])}
    IN  CHOOSE j \in ends : \A m \in ends : m <= j
WordsEnd(text, i) ==
    LET ends == {j \in i..Len(text) : \A k \in (i + 1)..j : IsWord(text[k])}
    IN  CHOOSE j \in ends : \A m \in ends : m <= j

\* str.strip()
strip(s) ==
    LET inner == {k \in 1..Len(s) : s[k] # " "}
    IN  IF inner = {} THEN <<>>
        ELSE SubSeq(s, CHOOSE k \in inner : \A m \in inner : k <= m,
                       CHOOSE k \in inner : \A m \in inner : m <= k)

\* re.search of keyword[\s:]*pattern with re.IGNORECASE: the leftmost keyword,
\* in any casing, that separators and then at least one word character follow.
\* [from |-> the keyword, value |-> the first token of the run, to |-> its
\* last], or None.
search_keyword_pattern(text) ==
    LET ValueFrom(i) == SeparatorsEnd(text, i) + 1
        ValueTo(i) == WordsEnd(text, ValueFrom(i) - 1)
        hits == {i \in 1..Len(text) :
                    IsKeyword(text[i]) /\ ValueTo(i) >= ValueFrom(i)}
    IN  IF hits = {} THEN None
        ELSE LET i == CHOOSE i \in hits : \A m \in hits : i <= m
             IN  Some([from |-> i, value |-> ValueFrom(i), to |-> ValueTo(i)])

\* KeywordExtractor.find_text_after_keyword. With a pattern: group 1 of the
\* match, or, the pattern having no group, the match with every occurrence of
\* the keyword as given removed (str.replace compares the casing). Without a
\* pattern: keyword[\s:]*([^\n]+), the rest of the text after the separators,
\* or the last separator when nothing else follows.
find_text_after_keyword(text, pattern) ==
    IF pattern # None
    THEN LET match == search_keyword_pattern(text)
         IN  IF match = None THEN None
             ELSE IF Get(pattern).groups > 0
             THEN Some(strip(SubSeq(text, Get(match).value, Get(match).to)))
             ELSE Some(strip(SelectSeq(
                      SubSeq(text, Get(match).from, Get(match).to),
                      LAMBDA t : t # "K")))
    ELSE LET hits == {i \in 1..Len(text) : IsKeyword(text[i])}
         IN  IF hits = {} THEN None
             ELSE LET i == CHOOSE i \in hits : \A m \in hits : i <= m
                      j == SeparatorsEnd(text, i)
                  IN  IF i = Len(text) THEN None
                      ELSE IF j < Len(text)
                      THEN Some(strip(SubSeq(text, j + 1, Len(text))))
                      ELSE Some(strip(<<text[Len(text)]>>))

KeywordPatterns == {None, Some([groups |-> 0]), Some([groups |-> 1])}

KeywordCalls ==
    {[op |-> "find_text_after_keyword", full_text |-> t, pattern |-> p] :
        t \in KeywordTexts, p \in KeywordPatterns}

call_find_text_after_keyword ==
    /\ ex_call.op = "find_text_after_keyword"
    /\ ex_ret = NotReturned
    /\ ex_ret' = Return(find_text_after_keyword(ex_call.full_text, ex_call.pattern))
    /\ UNCHANGED <<recap, recap_rows, date_text, dates, ex_call>>
    /\ UNCHANGED <<parseVars, parserVars, objVars, vrVars, loaderVars>>

\* Text blocks: text is a sequence of the tokens "K", "k" (the keyword as
\* given and in another casing), " " and digits, each block holding the digit
\* of its place; y_min is the top of its bounding box.
NearbyLimit == 100
NextBlocks == 4

TextBlock(text, y_min) == [text |-> text, y_min |-> y_min]

\* The lists of blocks: block j holds the digit j, the first two blocks with
\* or without the keyword before it, at an offset just inside, at and on
\* either side of the limit.
BlockLists ==
    UNION {{[j \in 1..n |-> TextBlock(pre[j] \o <<Digits[j + 1]>>, y[j])] :
               pre \in [1..n -> {<<>>, <<"K", " ">>, <<"k", " ">>}],
               y \in [1..n -> {0, NearbyLimit - 1, NearbyLimit}]} :
           n \in 0..2}
    \cup UNION {{[j \in 1..n |-> TextBlock(IF j <= 2 THEN pre[j] \o <<Digits[j + 1]>>
                                           ELSE <<Digits[j + 1]>>,
                                           y[j])] :
                    pre \in [1..2 -> {<<>>, <<"K", " ">>, <<"k", " ">>}],
                    y \in [1..n -> {0, NearbyLimit - 1, NearbyLimit}]} :
                n \in 3..MaxBlocks}

\* The loop over the blocks after block i that builds target_text.
RECURSIVE add_next_blocks(_, _, _, _)
add_next_blocks(text_blocks, i, j, target_text) ==
    IF j > Min(i + NextBlocks, Len(text_blocks)) THEN target_text
    ELSE add_next_blocks(text_blocks, i, j + 1,
            IF Abs(text_blocks[j].y_min - text_blocks[i].y_min) < NearbyLimit
            THEN target_text \o <<" ">> \o text_blocks[j].text
            ELSE target_text)

\* KeywordExtractor.extract_with_context from block i on. The pattern is \d+:
\* it finds the first number of target_text. Without a pattern the text is
\* split at the first occurrence of the keyword as given (str.split compares
\* the casing); when there is none the scan goes on with the next block.
RECURSIVE extract_with_context_from(_, _, _)
extract_with_context_from(text_blocks, pattern, i) ==
    IF i > Len(text_blocks) THEN None
    ELSE IF \E k \in 1..Len(text_blocks[i].text) : IsKeyword(text_blocks[i].text[k])
    THEN LET target_text ==
                 add_next_blocks(text_blocks, i, i + 1, text_blocks[i].text)
             numbers == {k \in 1..Len(target_text) :
                            \E d \in 1..Len(Digits) : Digits[d] = target_text[k]}
             splits == {k \in 1..Len(target_text) : target_text[k] = "K"}
         IN  IF pattern # None
             THEN IF numbers # {}
                  THEN Some(<<target_text[CHOOSE k \in numbers :
                                             \A m \in numbers : k <= m]>>)
                  ELSE extract_with_context_from(text_blocks, pattern, i + 1)
             ELSE IF splits # {}
                  THEN Some(strip(SubSeq(target_text,
                                (CHOOSE k \in splits : \A m \in splits : k <= m) + 1,
                                Len(target_text))))
                  ELSE extract_with_context_from(text_blocks, pattern, i + 1)
    ELSE extract_with_context_from(text_blocks, pattern, i + 1)

extract_with_context(text_blocks, pattern) ==
    extract_with_context_from(text_blocks, pattern, 1)

ContextCalls ==
    {[op |-> "extract_with_context", text_blocks |-> b, pattern |-> p] :
        b \in BlockLists, p \in {None, Some([groups |-> 0])}}

call_extract_with_context ==
    /\ ex_call.op = "extract_with_context"
    /\ ex_ret = NotReturned
    /\ ex_ret' = Return(extract_with_context(ex_call.text_blocks, ex_call.pattern))
    /\ UNCHANGED <<recap, recap_rows, date_text, dates, ex_call>>
    /\ UNCHANGED <<parseVars, parserVars, objVars, vrVars, loaderVars>>

ExtractorCalls ==
    RegexCalls \cup NumberCalls \cup KeywordCalls \cup ContextCalls

ExtractorCalled ==
    /\ recap = <<>>
    /\ recap_rows = NoRows
    /\ date_text = [lines |-> <<>>, due_date |-> None]
    /\ dates = NoDates
    /\ ex_call \in ExtractorCalls
    /\ ex_ret = NotReturned

ExtractorNext ==
    \/ call_extract_first_match
    \/ call_extract_all_matches
    \/ call_clean_czech_number
    \/ call_find_text_after_keyword
    \/ call_extract_with_context

----------------------------------------------------------------------------
(* Specifications *)

\* One call of PhoenixParser.parse.
Init == ParseIdle /\ ParserIdle /\ ObjIdle /\ VrIdle /\ LoaderIdle /\ TextIdle
Next == ParseNext
Spec == Init /\ [][Next]_vars

\* One object of the models, constructed and then assigned to.
SpecModels == Init /\ [][ObjNext]_vars

\* One ValidationResult, constructed and then added to.
InitResult ==
    ParseIdle /\ ParserIdle /\ ObjIdle /\ VrInit /\ LoaderIdle /\ TextIdle
SpecResult == InitResult /\ [][VrNext]_vars

\* One call of PhoenixParser.parse on a parser constructed with any of the
\* configurations.
InitConfigured ==
    ParseIdle /\ ParserConfigured /\ ObjIdle /\ VrIdle /\ LoaderIdle /\ TextIdle
SpecConfigured == InitConfigured /\ [][Next]_vars

\* _extract_vat_breakdown on one text of VAT figures.
InitRecap == ParseIdle /\ ParserIdle /\ ObjIdle /\ VrIdle /\ LoaderIdle /\ TextGiven
SpecRecap == InitRecap /\ [][extract_recap]_vars

\* _extract_issue_date and _extract_supply_date on one text of dates.
InitDates == ParseIdle /\ ParserIdle /\ ObjIdle /\ VrIdle /\ LoaderIdle /\ DatesGiven
SpecDates == InitDates /\ [][extract_dates]_vars

\* One caller of a ConfigLoader, asking for more vendor codes than the cache
\* holds; the file of the first vendor code is in any state.
InitLoader ==
    /\ ParseIdle /\ ParserIdle /\ ObjIdle /\ VrIdle /\ TextIdle
    /\ ConfigLoader_init(1..NVendors,
                         {[c \in 1..NVendors |-> IF c = 1 THEN s ELSE "ok"] :
                             s \in FileStates},
                         {1})
SpecLoader == InitLoader /\ [][LoaderNext]_vars

\* Threads sharing a ConfigLoader, asking for two vendor codes.
InitLoaderThreads ==
    /\ ParseIdle /\ ParserIdle /\ ObjIdle /\ VrIdle /\ TextIdle
    /\ ConfigLoader_init(1..2, [1..2 -> FileStates], 1..NThreads)
SpecLoaderThreads == InitLoaderThreads /\ [][LoaderNext]_vars

\* Threads sharing a ConfigLoader whose files are repaired while they call;
\* the cache is never cleared.
InitLoaderRepair ==
    /\ ParseIdle /\ ParserIdle /\ ObjIdle /\ VrIdle /\ TextIdle
    /\ ConfigLoader_init(1..2, [1..2 -> FileStates], 1..NThreads)
SpecLoaderRepair == InitLoaderRepair /\ [][LoaderRepairNext]_vars

\* Parallel calls of parse on one parser.
InitParallel == ParseIdle /\ ParallelIdle /\ ObjIdle /\ VrIdle /\ LoaderIdle /\ TextIdle
SpecParallel == InitParallel /\ [][ParallelNext]_vars

\* One call of a function of RegexExtractor or KeywordExtractor.
InitExtractor ==
    ParseIdle /\ ParserIdle /\ ObjIdle /\ VrIdle /\ LoaderIdle /\ ExtractorCalled
SpecExtractor == InitExtractor /\ [][ExtractorNext]_vars

----------------------------------------------------------------------------
(* What a document's text holds, read off the text alone *)

\* The results of the eight sub-extractions of parse on a text.
Extractions(text) ==
    [invoice_number |-> _extract_invoice_number(text),
     issue_date |-> _extract_issue_date(text),
     due_date |-> _extract_due_date(text),
     supply_date |-> _extract_supply_date(text),
     variable_symbol |-> _extract_variable_symbol(text),
     supplier |-> _extract_supplier_info(text),
     vat_breakdowns |-> _extract_vat_breakdown(text),
     total_amount |-> _extract_total_amount(text)]

\* Every sub-extraction of the text succeeds.
AllExtract(text) ==
    \A f \in DOMAIN Extractions(text) : Extractions(text)[f].ok

\* The record the text stands for, when every sub-extraction succeeds.
RecordOf(text) ==
    ParsedInvoice(InvoiceArgs([f \in DOMAIN Extractions(text) |->
                                  Some(Extractions(text)[f].value)]))

\* The document parses: it opens, it reads, every sub-extraction and the
\* construction of the record succeed.
Parses(d) ==
    /\ d.file = "ok"
    /\ AllExtract(d.text)
    /\ RecordOf(d.text).ok

\* The figures and dates of the text are all found (whether or not the rows
\* and the record they make up validate).
AllFound(text) ==
    /\ \A f \in {"invoice_number", "issue_date", "due_date", "supply_date",
                 "supplier", "total_amount"} : Extractions(text)[f].ok
    /\ vat_figures(text) # <<>>

\* The record-level checks the figures and dates of such a text violate.
ViolatedChecks(text) ==
    LET e == Extractions(text)
        rows == vat_figures(text)
        issue == e.issue_date.value
    IN  (IF \E k \in 1..Len(rows) :
                Abs(rows[k].amount - quantize(rows[k].base * rows[k].rate)) > 1
         THEN {"amount"} ELSE {})
        \cup (IF Abs(e.total_amount.value - vat_sum(rows)) > 1
              THEN {"total_amount"} ELSE {})
        \cup (IF e.due_date.value < issue THEN {"due_date"} ELSE {})
        \cup (IF e.supply_date.value - issue < 0 - 90
                 \/ e.supply_date.value - issue > 30
              THEN {"supply_date"} ELSE {})

\* The checks the caller of parse is told have failed.
ReportedChecks ==
    IF outcome.kind = "raise" THEN outcome.errors ELSE {}

----------------------------------------------------------------------------
(* Claims *)

\* C1: parse is all-or-nothing. The caller gets a record only when the
\* document opened and read, every sub-extraction succeeded and the record
\* validated, and then it is that complete record; on any failure parse ends
\* by raising and the caller gets no record.
C1_AllOrNothing ==
    /\ outcome.kind = "return" =>
          /\ pc = "done"
          /\ Parses(doc)
          /\ outcome.value = RecordOf(doc.text).value
    /\ (pc = "done" /\ ~Parses(doc)) =>
          /\ outcome.kind = "raise"
          /\ "value" \notin DOMAIN outcome
    /\ pc # "done" => outcome = NoOutcome

\* C1 witness: every field was extracted, the record did not validate, and
\* parse ended by raising.
C1_Witness ==
    /\ pc = "done"
    /\ locals.total_amount # None
    /\ outcome.kind = "raise"
    /\ outcome.failed = "ParsedInvoice"

\* C2: on every exit of parse after the document handle was opened, the handle
\* is closed.
C2_HandleClosedOnExit ==
    (pc = "done" /\ handle # "none") => handle = "closed"

\* C3: a document whose fields all extract but whose record violates a
\* record-level invariant (total reconciliation, due date before issue date,
\* supply date outside its window) is still returned to the caller, the
\* violation being a finding and not an exception.
C3_ViolatingRecordReturned ==
    (/\ pc = "done"
     /\ doc.file = "ok"
     /\ AllExtract(doc.text)
     /\ ~RecordOf(doc.text).ok
     /\ RecordOf(doc.text).errors \subseteq {"total_amount", "due_date", "supply_date"})
    => outcome.kind = "return"

\* C5: validation never fails fast. Of a document whose figures and dates are
\* all found, every violated check (VAT arithmetic of a row, total
\* reconciliation, date ordering, supply window) is reported in the one pass.
C5_EveryViolatedCheckReported ==
    (pc = "done" /\ doc.file = "ok" /\ AllFound(doc.text))
    => ViolatedChecks(doc.text) \subseteq ReportedChecks

\* C4 as claimed: in every state of a ValidationResult, whatever it was
\* constructed with, is_valid is true exactly when errors is empty.
C4_IsValidIffNoErrors ==
    vr.is_valid = (vr.errors = <<>>)

\* C4 amended: for a ValidationResult constructed with is_valid equal to
\* "errors is empty", is_valid is true exactly when errors is empty after any
\* sequence of add_error, add_warning and add_info calls.
C4_IsValidIffNoErrors_Amended ==
    (ctor.is_valid = (ctor.errors = <<>>)) => (vr.is_valid = (vr.errors = <<>>))

\* C4 witness: a result constructed valid and empty that add_error and
\* add_warning have acted on.
C4_Witness ==
    /\ ctor.is_valid /\ ctor.errors = <<>>
    /\ Len(vr.errors) = 2
    /\ vr.warnings # <<>>
    /\ ~vr.is_valid

\* C6: the amount of a VAT row that satisfies the VAT arithmetic is mutated to
\* a value that violates it: the violation is reported as an error on amount.
C6_MutatedAmountReported ==
    (/\ call.op = "setattr"
     /\ call.before.class = "VATBreakdown"
     /\ call.name = "amount"
     /\ VATBreakdown(call.before.rate, call.before.base, call.before.amount).ok
     /\ call.value >= 0
     /\ Abs(call.value - quantize(call.before.base * call.before.rate)) > 1)
    => "amount" \in raised

\* The difference between the total and the sum of base + amount of the rows.
TotalDiff(rows, total) == Abs(total - vat_sum(rows))

C8_SupplyWindow ==
    /\ (call.op = "init" /\ call.class = "ParsedInvoice")
       => (("supply_date" \in raised)
           <=> ~(/\ call.args.supply_date - call.args.issue_date >= 0 - 90
                 /\ call.args.supply_date - call.args.issue_date <= 30))
    /\ (/\ call.op = "setattr" /\ call.before.class = "ParsedInvoice"
        /\ call.name = "supply_date")
       => (("supply_date" \in raised)
           <=> ~(/\ call.value - call.before.issue_date >= 0 - 90
                 /\ call.value - call.before.issue_date <= 30))

\* C8 witness: a record constructed with a supply date exactly 30 days after
\* the issue date.
C8_Witness ==
    /\ call.op = "init" /\ call.class = "ParsedInvoice"
    /\ obj.class = "ParsedInvoice"
    /\ obj.supply_date - obj.issue_date = 30

\* C9: constructing a VATBreakdown or a LineItem with a rate other than 0.00,
\* 0.12, 0.21 is rejected with an error on the rate and no object; an accepted
\* object carries exactly the rate supplied.
C9_RateRejectedNotCoerced ==
    /\ (call.op = "init" /\ call.class = "VATBreakdown")
       => /\ call.args.rate \notin {0, 120, 210}
                => (obj = NoObject /\ "rate" \in raised)
          /\ obj # NoObject => obj.rate = call.args.rate
    /\ (call.op = "init" /\ call.class = "LineItem")
       => /\ call.args.vat_rate \notin {0, 120, 210}
                => (obj = NoObject /\ "vat_rate" \in raised)
          /\ obj # NoObject => obj.vat_rate = call.args.vat_rate

\* C9 witness: a VATBreakdown with rate 0.20, whose base and amount are
\* otherwise fine, was rejected.
C9_Witness ==
    /\ call.op = "init" /\ call.class = "VATBreakdown"
    /\ call.args.rate = 200
    /\ raised = {"rate"}
    /\ obj = NoObject

\* C10: due_date >= issue_date in every state of a ParsedInvoice.
C10_DueNotBeforeIssue ==
    obj.class = "ParsedInvoice" => obj.due_date >= obj.issue_date

\* C11: |amount - round(base*rate, 2)| <= 0.01 in every state of a
\* VATBreakdown, after construction and after any assignments to its fields.
C11_VatArithmeticInvariant ==
    obj.class = "VATBreakdown"
    => Abs(obj.amount - quantize(obj.base * obj.rate)) <= 1

\* The statements of the try block of parse, in the order of the claim.
Steps ==
    <<"invoice_number", "issue_date", "due_date", "supply_date",
      "variable_symbol", "supplier", "vat_breakdowns", "total_amount">>

\* The first of Steps whose sub-extraction fails on the text.
FirstFailure(text) ==
    CHOOSE k \in 1..Len(Steps) :
        /\ ~Extractions(text)[Steps[k]].ok
        /\ \A j \in 1..(k - 1) : Extractions(text)[Steps[j]].ok

\* C12: extraction runs in the order invoice number, issue date, due date,
\* supply date, variable symbol, supplier, VAT breakdown, total amount and stops
\* at the first failure: a field is extracted only after every earlier one
\* succeeded, nothing runs after a failure but the finally clause, and the
\* error parse reports is that of the earliest failing field, no later field
\* having been extracted.
C12_EarliestFailureReported ==
    /\ \A k \in 1..Len(Steps) :
          locals[Steps[k]] # None
          => \A j \in 1..k : Extractions(doc.text)[Steps[j]].ok
    /\ pending.kind = "raise" => pc \in {"finally", "done"}
    /\ (pc = "done" /\ doc.file = "ok" /\ ~AllExtract(doc.text))
       => LET k == FirstFailure(doc.text)
          IN  /\ outcome.kind = "raise"
              /\ outcome.exc = "PDFParseError"
              /\ outcome.failed = Steps[k]
              /\ outcome.error = Extractions(doc.text)[Steps[k]].error
              /\ \A j \in 1..(k - 1) : locals[Steps[j]] # None
              /\ \A j \in k..Len(Steps) : locals[Steps[j]] = None

\* C12 witness: the due date, the supplier and the total are all missing and
\* parse ended reporting the due date.
C12_Witness ==
    /\ pc = "done"
    /\ doc.file = "ok"
    /\ ~Extractions(doc.text).due_date.ok
    /\ ~Extractions(doc.text).supplier.ok
    /\ ~Extractions(doc.text).total_amount.ok
    /\ outcome.kind = "raise"
    /\ outcome.failed = "due_date"
    /\ outcome.error = "Due date not found"
    /\ locals.issue_date # None
    /\ locals.supplier = None

\* The text with a due date written into it.
WithDueDate(text) ==
    [text EXCEPT !.due_date = Some(DateLiteral(Issue0 + 1))]

\* C13: the required flag of a field's FieldConfig decides the outcome of a
\* missing field (here the due date and the variable symbol, every earlier
\* field being found): required, the parse fails with an error naming the
\* field; not required, the field is absent from the record and the parse of
\* a document that is otherwise in order succeeds.
C13_RequiredFlagDecides ==
    (pc = "done" /\ doc.file = "ok")
    => /\ (/\ doc.text.due_date = None
           /\ Extractions(doc.text).invoice_number.ok
           /\ Extractions(doc.text).issue_date.ok)
          => IF config.header.due_date.required
             THEN outcome.kind = "raise" /\ outcome.failed = "due_date"
             ELSE Parses([file |-> "ok", text |-> WithDueDate(doc.text)])
                  => outcome.kind = "return"
       /\ (/\ doc.text.variable_symbol = None
           /\ \A k \in 1..4 : Extractions(doc.text)[Steps[k]].ok)
          => IF config.header.variable_symbol.required
             THEN outcome.kind = "raise" /\ outcome.failed = "variable_symbol"
             ELSE Parses(doc) => /\ outcome.kind = "return"
                                 /\ outcome.value.variable_symbol = None

\* The occurrences of a rate's figures in the text: the rate literals with a
\* base figure in reach.
Occurrences(text, r) ==
    {i \in 1..Len(text) :
        text[i] = RateLiteral(r) /\ NextFigure(text, i, BaseWindow) # 0}

\* The rows of the rate among those _extract_vat_breakdown returned.
RowsOfRate(r) ==
    IF recap_rows.ok
    THEN {recap_rows.value[k] : k \in
            {k \in 1..Len(recap_rows.value) :
                recap_rows.value[k].rate = (IF r = "21" THEN 210 ELSE 120)}}
    ELSE {}

\* C14: when the figures of a rate occur several times in the text, the base
\* and the amount of the rate's row are both those of the last occurrence:
\* the figure after its rate literal and the figure after that one.
C14_BothFromLastOccurrence ==
    \A r \in {"21", "12"} :
        (Cardinality(Occurrences(recap, r)) >= 2 /\ RowsOfRate(r) # {})
        => LET last == CHOOSE i \in Occurrences(recap, r) :
                          \A m \in Occurrences(recap, r) : m <= i
               b == NextFigure(recap, last, BaseWindow)
               a == NextFigure(recap, b, AmountWindow)
           IN  /\ a # 0
               /\ \A row \in RowsOfRate(r) :
                     row.base = recap[b].value /\ row.amount = recap[a].value

\* The rates of the rows parse extracted.
ExtractedRates ==
    {Get(locals.vat_breakdowns)[k].rate : k \in 1..Len(Get(locals.vat_breakdowns))}

\* C15: in the breakdown parse extracted, a nonzero rate (21%, 12%) appears
\* exactly when both its base and its amount were found in the text, and the
\* 0% rate exactly when its base was found, its amount then being 0.00; a
\* figure found with the value 0,00 counts as found.
C15_RateIncludedIffFound ==
    locals.vat_breakdowns # None
    => /\ (210 \in ExtractedRates)
          <=> (doc.text.vat_base["21"] # <<>> /\ doc.text.vat_amount["21"] # <<>>)
       /\ (120 \in ExtractedRates)
          <=> (doc.text.vat_base["12"] # <<>> /\ doc.text.vat_amount["12"] # <<>>)
       /\ (0 \in ExtractedRates) <=> (doc.text.vat_base["0"] # <<>>)
       /\ \A k \in 1..Len(Get(locals.vat_breakdowns)) :
             Get(locals.vat_breakdowns)[k].rate = 0
             => Get(locals.vat_breakdowns)[k].amount = 0

\* The first line of the text of dates carrying the tax-point-date label, the
\* first carrying the issue-date label (0 when there is none), and the date
\* literals of lines from .. to.
FirstSupplyLabelLine ==
    LET hits == {i \in 1..Len(date_text.lines) : date_text.lines[i].supply_label}
    IN  IF hits = {} THEN 0 ELSE CHOOSE i \in hits : \A k \in hits : i <= k
FirstIssueLabelLine ==
    LET hits == {i \in 1..Len(date_text.lines) : date_text.lines[i].issue_label}
    IN  IF hits = {} THEN 0 ELSE CHOOSE i \in hits : \A k \in hits : i <= k
LiteralsOn(from, to) ==
    dates_found(date_text.lines, from, Min(to, Len(date_text.lines)))
BothResolveTo(first, second) ==
    /\ Get(dates.issue_date) = Ok(first.day)
    /\ Get(dates.supply_date) = Ok(second.day)

\* C16 as stated: when the tax-point-date label is followed by two date
\* literals on the following lines, the issue date is the first literal and
\* the supply date the second; when only one literal follows, both dates
\* resolve to it -- wherever the issue-date label stands and however far the
\* literals are from the labels.
C16_DatesAfterTaxPointLabel ==
    (dates # NoDates /\ FirstSupplyLabelLine # 0)
    => LET after == LiteralsOn(FirstSupplyLabelLine + 1, Len(date_text.lines))
       IN  /\ Len(after) >= 2 => BothResolveTo(after[1], after[2])
           /\ Len(after) = 1 => BothResolveTo(after[1], after[1])

\* C16 amended: when the first line carrying the issue-date label is directly
\* followed by the first line carrying the tax-point-date label, and that by
\* a line with a date literal, then the issue date is that literal, and the
\* supply date is the next literal on the three lines after it, or that same
\* literal if those lines hold none.
C16_DatesAfterBothLabels ==
    LET i == FirstIssueLabelLine
        t == FirstSupplyLabelLine
        near == LiteralsOn(t + 1, t + 4)
    IN  (/\ dates # NoDates
         /\ i # 0 /\ t = i + 1
         /\ t + 1 <= Len(date_text.lines)
         /\ date_text.lines[t + 1].date # None)
        => /\ Len(near) >= 2 => BothResolveTo(near[1], near[2])
           /\ Len(near) = 1 => BothResolveTo(near[1], near[1])

\* Both labels, the first literal, two lines without one, and a second,
\* different literal on the fourth line after the tax-point label.
C16_Witness ==
    LET i == FirstIssueLabelLine
        t == FirstSupplyLabelLine
        near == LiteralsOn(t + 1, t + 4)
    IN  /\ dates # NoDates
        /\ i # 0 /\ t = i + 1
        /\ Len(date_text.lines) = t + 4
        /\ date_text.lines[t + 1].date # None
        /\ date_text.lines[t + 2].date = None
        /\ date_text.lines[t + 3].date = None
        /\ date_text.lines[t + 4].date # None
        /\ near[1] # near[2]
        /\ BothResolveTo(near[1], near[2])

\* C17: between two clear_cache calls, whatever vendor codes one caller asks
\* for and in whatever order, a vendor's file is read and validated at most
\* once, and every call that returns a configuration returns the one that
\* first load made.
C17_LoadedOncePerVendor ==
    /\ \A c \in DOMAIN files : reads[c] <= 1
    /\ \A t \in DOMAIN callers :
          (callers[t].result # None /\ Get(callers[t].result).ok)
          => Get(callers[t].result).value.load = 1

\* C18: with several threads calling at once, a vendor's file is loaded once
\* and every caller is handed the configuration of that one load.
C18_SingleWinner ==
    /\ \A c \in DOMAIN files : reads[c] <= 1
    /\ \A t \in DOMAIN callers, u \in DOMAIN callers :
          (/\ callers[t].result # None /\ Get(callers[t].result).ok
           /\ callers[u].result # None /\ Get(callers[u].result).ok
           /\ callers[t].vendor_code = callers[u].vendor_code)
          => callers[t].result = callers[u].result

\* C19: a call of load_vendor_config that fails raises ConfigurationError
\* naming the vendor code asked for, and a call returns a configuration only
\* when the vendor's file holds a valid one.
C19_FailureIsConfigurationError ==
    \A t \in DOMAIN callers :
        callers[t].result # None
        => LET r == Get(callers[t].result)
           IN  /\ ~r.ok => /\ r.exc = "ConfigurationError"
                           /\ r.vendor_code = Some(callers[t].vendor_code)
               /\ r.ok => /\ files[callers[t].vendor_code] = "ok"
                          /\ r.value.vendor_code = callers[t].vendor_code

\* What parse(d) ends in when no other call runs: the failure of load_pdf or
\* of get_full_text, else the PDFParseError of the first sub-extraction that
\* fails or of the construction of the record, else the record.
AloneOutcome(d) ==
    IF d.file = "missing"
    THEN Raised("PDFParseError", "load_pdf", "PDF file not found", {})
    ELSE IF d.file = "corrupt"
    THEN Raised("PDFParseError", "load_pdf", "Failed to load PDF", {})
    ELSE IF d.file = "unreadable"
    THEN Raised("Exception", "get_full_text", "get_text failed", {})
    ELSE IF ~AllExtract(d.text)
    THEN LET at == Steps[FirstFailure(d.text)]
             r == Extractions(d.text)[at]
         IN  Raised("PDFParseError", at, r.error,
                    IF "errors" \in DOMAIN r THEN r.errors ELSE {})
    ELSE IF RecordOf(d.text).ok THEN Returned(RecordOf(d.text).value)
    ELSE Raised("PDFParseError", "ParsedInvoice", "ValidationError",
                RecordOf(d.text).errors)

\* The calls of parse: the running one and the suspended ones.
Calls == {Frame} \cup {others[k] : k \in 1..Len(others)}

\* C20: however the steps of parallel calls of parse on one parser are
\* interleaved, each call ends in the record or the failure it ends in when
\* run alone, a call that has not ended has handed nothing to its caller, and
\* the parser's configuration is what the parser was constructed with.
C20_ParsesIndependent ==
    /\ config = VendorConfiguration(TRUE, TRUE)
    /\ \A f \in Calls :
          /\ f.pc = "done" => f.outcome = AloneOutcome(f.doc)
          /\ f.pc # "done" => f.outcome = NoOutcome
          /\ f.full_text # None =>
                (f.doc # NoDoc /\ f.full_text = Some(f.doc.text))

\* Two calls have ended, on different documents: one returned its record, the
\* other raised.
C20_Witness ==
    /\ pc = "done" /\ outcome.kind = "return"
    /\ \E k \in 1..Len(others) :
          /\ others[k].pc = "done"
          /\ others[k].outcome.kind = "raise"
          /\ others[k].outcome.failed = "due_date"

\* C21: when the pattern matches and the group index asked for is beyond the
\* pattern's capture groups, extract_first_match hands its caller something
\* other than what it hands back when the pattern does not match at all.
C21_InvalidGroupDistinct ==
    (/\ ex_call.op = "extract_first_match"
     /\ ex_ret.done
     /\ ex_call.search.matches # <<>>
     /\ ex_call.group > ex_call.search.ngroups)
    => ex_ret # Return(extract_first_match(
                           [ex_call.search EXCEPT !.matches = <<>>], ex_call.group))

\* The texts of the group of the matches that have it, in the order of the
\* matches.
RECURSIVE GroupsPresent(_, _)
GroupsPresent(ms, group) ==
    IF ms = <<>> THEN <<>>
    ELSE (IF group < Len(ms[1].groups) /\ ms[1].groups[group + 1] # None
          THEN <<ms[1].groups[group + 1]>> ELSE <<>>)
         \o GroupsPresent(Tail(ms), group)

\* C22: extract_all_matches returns the requested group's text of every match
\* that has the group, in the order of the matches, and leaves out every match
\* that lacks it; what it returns is a list of texts only.
C22_EveryMatchWithGroup ==
    (ex_call.op = "extract_all_matches" /\ ex_ret.done)
    => /\ ex_ret.value = GroupsPresent(ex_call.search.matches, ex_call.group)
       /\ \A k \in 1..Len(ex_ret.value) : ex_ret.value[k] # None

\* C23: clean_czech_number(s) is s with every space removed and every comma
\* replaced by a point: its result holds no space and no comma, cleaning the
\* result again changes nothing, and "1 234,56" becomes "1234.56", which
\* Decimal converts to 123456 * 10^-2 exactly.
C23_CleanNumber ==
    (ex_call.op = "clean_czech_number" /\ ex_ret.done)
    => LET s == ex_call.value
           out == Get(ex_ret.value)
           kept == SelectSeq(s, LAMBDA c : c # " ")
       IN  /\ out = [k \in 1..Len(kept) |-> IF kept[k] = "," THEN "." ELSE kept[k]]
           /\ \A k \in 1..Len(out) : out[k] # " " /\ out[k] # ","
           /\ clean_czech_number(out) = out
           /\ s = <<"1", " ", "2", "3", "4", ",", "5", "6">>
              => /\ out = <<"1", "2", "3", "4", ".", "5", "6">>
                 /\ Decimal(out) = Ok([coefficient |-> 123456, exponent |-> -2])

\* "1 234,56" has been cleaned.
C23_Witness ==
    /\ ex_call.op = "clean_czech_number"
    /\ ex_call.value = <<"1", " ", "2", "3", "4", ",", "5", "6">>
    /\ ex_ret = Return(Some(<<"1", "2", "3", "4", ".", "5", "6">>))

\* C24: with a pattern that has no capture group, find_text_after_keyword
\* returns the matched text with the keyword at its start taken off, in
\* whatever casing the keyword stands in the text, and with later occurrences
\* of the keyword inside the value left in place.
C24_KeywordPrefixStripped ==
    (/\ ex_call.op = "find_text_after_keyword"
     /\ ex_ret.done
     /\ ex_call.pattern = Some([groups |-> 0])
     /\ search_keyword_pattern(ex_call.full_text) # None)
    => LET match == Get(search_keyword_pattern(ex_call.full_text))
       IN  ex_ret.value =
               Some(strip(SubSeq(ex_call.full_text, match.from + 1, match.to)))

\* The texts of the blocks js of a list, in their order, a space between two.
RECURSIVE JoinBlocks(_, _)
JoinBlocks(text_blocks, js) ==
    IF js = {} THEN <<>>
    ELSE LET j == CHOOSE j \in js : \A m \in js : j <= m
         IN  text_blocks[j].text
             \o (IF js = {j} THEN <<>>
                 ELSE <<" ">> \o JoinBlocks(text_blocks, js \ {j}))

\* C25: extract_with_context takes the first block whose text holds the
\* keyword in any casing, joins it with exactly those of the next four blocks
\* whose vertical offset from it is below 100, in their order, and, given no
\* pattern, returns the text that follows the keyword in the joined text,
\* whatever the casing of the keyword in the block.
C25_ContextAfterKeyword ==
    LET text_blocks == ex_call.text_blocks
        holders == {i \in 1..Len(text_blocks) :
                       \E k \in 1..Len(text_blocks[i].text) :
                           IsKeyword(text_blocks[i].text[k])}
    IN  (/\ ex_call.op = "extract_with_context"
         /\ ex_ret.done
         /\ ex_call.pattern = None
         /\ holders # {})
        => LET i == CHOOSE i \in holders : \A m \in holders : i <= m
               near == {j \in (i + 1)..Len(text_blocks) :
                           /\ j <= i + 4
                           /\ Abs(text_blocks[j].y_min - text_blocks[i].y_min) < 100}
               joined == JoinBlocks(text_blocks, {i} \cup near)
               at == CHOOSE k \in 1..Len(joined) :
                         /\ IsKeyword(joined[k])
                         /\ \A m \in 1..(k - 1) : ~IsKeyword(joined[m])
           IN  ex_ret.value = Some(strip(SubSeq(joined, at + 1, Len(joined))))

\* C27: on a ValidationResult is_valid changes only in a step that adds an
\* error, and only from true to false; a step that adds a warning or an info
\* message leaves is_valid and errors as they were; once false, is_valid is
\* not made true again by any add_error, add_warning or add_info.
C27_IsValidOnlyFalls ==
    [][/\ vr'.is_valid # vr.is_valid
          => /\ vr.is_valid
             /\ ~vr'.is_valid
             /\ Len(vr'.errors) = Len(vr.errors) + 1
             /\ vr'.warnings = vr.warnings
             /\ vr'.info = vr.info
       /\ (vr'.warnings # vr.warnings \/ vr'.info # vr.info)
          => /\ vr'.is_valid = vr.is_valid
             /\ vr'.errors = vr.errors
       /\ ~vr.is_valid => ~vr'.is_valid]_vars

\* A result constructed valid, made invalid by add_error, and added to with
\* add_warning and add_info afterwards or before.
C27_Witness ==
    /\ ctor.is_valid
    /\ ~vr.is_valid
    /\ Len(vr.errors) = Len(ctor.errors) + 1
    /\ vr.warnings # <<>>
    /\ vr.info # <<>>

\* C26: a call of load_vendor_config that fails leaves the cache as it was
\* and no entry for its vendor code in it; the cache never holds a failure;
\* and a call fails only while the file does not load, so that a later call
\* for the same code runs the load again (unless another thread has loaded
\* and cached the code since, whose configuration it then returns) and, the
\* file having become valid, returns a configuration, with no clear_cache in
\* between.
C26_FailureNotCached ==
    /\ [](\A k \in 1..Len(cache.entries) : cache.entries[k].value.ok)
    /\ [][\A t \in DOMAIN callers :
            (/\ callers'[t] # callers[t]
             /\ callers'[t].pc = "idle"
             /\ ~Get(callers'[t].result).ok)
            => /\ callers[t].pc = "miss"
               /\ cache' = cache
               /\ callers'[t].vendor_code \notin Keys(cache'.entries)
               /\ files[callers'[t].vendor_code] # "ok"]_vars
    /\ [][\A t \in DOMAIN callers :
            (/\ callers[t].pc = "idle"
             /\ callers[t].result # None
             /\ ~Get(callers[t].result).ok
             /\ callers'[t] # callers[t]
             /\ callers'[t].vendor_code = callers[t].vendor_code)
            => IF callers[t].vendor_code \in Keys(cache.entries)
               THEN /\ callers'[t].pc = "idle"
                    /\ Get(callers'[t].result).ok
               ELSE callers'[t].pc = "miss"]_vars

\* A code whose load failed for one thread, then repaired, loaded and cached
\* for another; and a thread whose own call failed and whose later call for
\* the same code has loaded the repaired file.
C26_Witness ==
    \E c \in DOMAIN files, t \in DOMAIN callers, u \in DOMAIN callers :
        /\ files[c] = "ok"
        /\ c \in Keys(cache.entries)
        /\ reads[c] = 1
        /\ callers[t] = Returned_to(c, Some(ConfigurationError(c, "Invalid configuration")))
        /\ callers[u] = Returned_to(c, Some(Loaded(c, 1)))

====
